---- MODULE Spec2Model ----
(***************************************************************************)
(* A model of the map-reduce question-answering engine of endaaman/DRED:   *)
(* the single-document QA worker (single_doc_qa.py), the map scheduler and *)
(* the run orchestrator (aggregate_qa.py), the run store                   *)
(* (execution_manager.py) and the document indexer (document_indexer.py).  *)
(***************************************************************************)
EXTENDS Integers, Sequences, FiniteSets, TLC

(***************************************************************************)
(* Bounds of the model and constants of the program.                       *)
(***************************************************************************)
\* longest run of non-blank characters in a backend answer
MaxCoreLen == 11
\* most blanks the backend puts before or after an answer
MaxPad == 1
\* single_document_qa: max_retries = 3
MaxRetries == 3
\* single_document_qa: len(answer.strip()) >= 10
MinAnswerLen == 10

\* number of documents in the corpus
MaxDocs == 3
\* largest value of the parallel parameter (max_workers)
MaxWorkers == 2
\* number of entry-point calls (run_aggregate_qa, run_aggregate_only) made
MaxCalls == 3
\* run_single_qa_batch: doc_path_to_index.get(x['document_path'], 999)
DefaultSortKey == 999

VARIABLES
    qaDoc,      \* SpecQA: the document file handed to single_document_qa
    qaTemplate, \* SpecQA: the template name handed to single_document_qa
    qaScript,   \* SpecQA: what the backend does on its 1st, 2nd, 3rd call
    qaOut,      \* SpecQA: <<>> before the call, <<outcome>> after it
    lastOp,     \* SpecStore, SpecRunId: the last ExecutionManager call made
    runDirs,    \* SpecRunId: the entries of the run base directory
    today,      \* SpecRunId: datetime.now().strftime("%Y-%m-%d")
    newIds,     \* SpecRunId: the ids create_run() has returned, in order
    rglobOrder, \* SpecIndexer: the order in which rglob yields the files
    scanOut,    \* SpecIndexer: the list scan_documents returned, as it is now
    filterOut,  \* SpecIndexer: the list the last filter_by_subdir returned
    lastFilter, \* SpecIndexer: the arguments of the last indexer call
    mainArgs,   \* SpecMain: the command line, and what is typed at the prompt
    mainOut,    \* SpecMain: <<>> before main() runs, <<outcome>> after it
    racers,     \* SpecRace: where each concurrent create_run() call stands
    backend,    \* per corpus file: whether the backend answers for it
    corpusRoot, \* whether the corpus root directory (data/yoko) exists
    store,      \* the run base directory: one run directory per run id
    clock,      \* datetime.now()
    pc,         \* where the orchestrator thread is
    call,       \* the entry point being executed and its arguments
    callsMade,  \* number of entry-point calls started
    documents,  \* run_aggregate_qa: the documents list of _setup_execution
    submitted,  \* run_single_qa_batch: number of tasks handed to the executor
    nThreads,   \* ThreadPoolExecutor: number of worker threads spawned
    task,       \* task[p]: state of the future of the p-th document
    taskOut,    \* taskOut[p]: what run_single_qa returned or raised
    results,    \* run_single_qa_batch: the results list
    locals,     \* run_aggregate_qa: single_results, aggregate_answer, ...
    exc,        \* the exception being propagated, <<>> when none
    statusLog,  \* history: the status values this call wrote to metadata
    dispatched, \* history: number of QA worker invocations started, ever
    llmCalls,   \* history: number of backend calls made (ollama.generate), ever
    resumed     \* history: number of run_aggregate_only calls that returned

qaVars == <<qaDoc, qaTemplate, qaScript, qaOut>>
unitVars == <<lastOp, runDirs, today, newIds, rglobOrder, scanOut, filterOut,
              lastFilter, mainArgs, mainOut, racers>>
batchVars == <<submitted, nThreads, task, taskOut, results>>
orchVars == <<backend, corpusRoot, store, clock, pc, call, callsMade, documents,
              batchVars, locals, exc, statusLog, dispatched, llmCalls, resumed>>
vars == <<qaVars, unitVars, orchVars>>

(***************************************************************************)
(* Text: a string is a sequence of one-character strings.                  *)
(***************************************************************************)
Blank == " "

Rep(c, n) == IF n = 0 THEN <<>> ELSE [i \in 1..n |-> c]

RECURSIVE LStrip(_)
LStrip(s) == IF s # <<>> /\ Head(s) = Blank THEN LStrip(Tail(s)) ELSE s

RECURSIVE RStrip(_)
RStrip(s) ==
    IF s # <<>> /\ s[Len(s)] = Blank THEN RStrip(SubSeq(s, 1, Len(s) - 1)) ELSE s

\* str.strip(): s.lstrip().rstrip(), each step applied to a value computed once
Strip(s) == CHOOSE t \in {RStrip(l) : l \in {LStrip(v) : v \in {s}}} : TRUE

\* the answers a backend may give: blanks, a core of non-blanks, blanks
CoreLens == {0, MinAnswerLen - 1, MinAnswerLen, MaxCoreLen}
Texts == {Rep(Blank, l) \o Rep("x", n) \o Rep(Blank, t) :
              l \in 0..MaxPad, n \in CoreLens, t \in 0..MaxPad}

(***************************************************************************)
(* The LLM backend (ollama.generate) as seen by query_llm: one call either *)
(* raises, returns a response without the "response" key, or returns text. *)
(***************************************************************************)
ConnectionError == [kind |-> "raise", msg |-> "connection refused"]
OtherError == [kind |-> "raise", msg |-> "model not found"]
Malformed == [kind |-> "malformed"]
TextResponse(t, n) == [kind |-> "text", text |-> t, tokens |-> n]

BackendOutcomes ==
    {ConnectionError, OtherError, Malformed} \cup {TextResponse(t, 1) : t \in Texts}

\* "connection" in str(e).lower()
MentionsConnection(msg) == msg = "connection refused"

\* query_llm: the stripped text and its metadata, or a wrapped exception
query_llm(b) ==
    CASE b.kind = "text" ->
            [kind |-> "ok", answer |-> Strip(b.text),
             metadata |-> [total_tokens |-> b.tokens]]
      [] b.kind = "malformed" ->
            [kind |-> "raise", error |-> "LLM query error"]
      [] OTHER ->
            IF MentionsConnection(b.msg)
            THEN [kind |-> "raise", error |-> "cannot connect to Ollama"]
            ELSE [kind |-> "raise", error |-> "LLM query error"]

(***************************************************************************)
(* single_document_qa                                                      *)
(***************************************************************************)
\* the states a document file can be in when the worker reads it
DocFileStates == {"readable", "missing", "undetected", "misdetected"}

\* read_document: exists check, chardet.detect, raw_data.decode(encoding);
\* decodes lists the encodings handed to raw_data.decode, in order
read_document(file) ==
    CASE file = "readable" -> [kind |-> "ok", decodes |-> <<"detected">>]
      [] file = "missing" -> [kind |-> "raise", error |-> "Document not found",
                              decodes |-> <<>>]
      [] file = "undetected" -> [kind |-> "raise", error |-> "decode: encoding is None",
                                 decodes |-> <<"None">>]
      [] OTHER -> [kind |-> "raise", error |-> "decode: invalid bytes",
                   decodes |-> <<"detected">>]

\* the templates present under prompts/single_qa
SingleTemplates == {"focused", "structured"}

\* load_prompt_template, called by create_prompt
create_prompt(template_name) ==
    IF template_name \in SingleTemplates
    THEN [kind |-> "ok"]
    ELSE [kind |-> "raise", error |-> "Template not found"]

\* the check with > in place of >=
AcceptableStrict(answer) == answer # <<>> /\ Len(Strip(answer)) > MinAnswerLen

\* "answer and len(answer.strip()) >= 10"
Acceptable(answer) == answer # <<>> /\ Len(Strip(answer)) >= MinAnswerLen

\* The retry loop of single_document_qa, entered with retry_count and the
\* number of backend calls made so far; script[k] is the backend's k-th call.
RECURSIVE QALoop(_, _, _, _, _)
QALoop(script, retry_count, calls, answer, llm_metadata) ==
    IF retry_count < MaxRetries
    THEN LET r == query_llm(script[calls + 1])
         IN  IF r.kind = "raise"
             THEN [kind |-> "raise", error |-> r.error, calls |-> calls + 1]
             ELSE IF Acceptable(r.answer)
                  THEN [kind |-> "ok", answer |-> r.answer,
                        metadata |-> r.metadata, calls |-> calls + 1]
                  ELSE QALoop(script, retry_count + 1, calls + 1,
                              r.answer, r.metadata)
    ELSE [kind |-> "ok", answer |-> answer, metadata |-> llm_metadata,
          calls |-> calls]

\* single_document_qa(doc_path, question, template_name): the result dict it
\* returns, or the exception it lets through; calls counts the backend calls.
single_document_qa(doc_path, file, question, template_name, script) ==
    LET d == read_document(file)
        p == create_prompt(template_name)
        l == QALoop(script, 0, 0, <<>>, <<>>)
    IN  IF d.kind = "raise" THEN [kind |-> "raise", error |-> d.error, calls |-> 0]
        ELSE IF p.kind = "raise" THEN [kind |-> "raise", error |-> p.error, calls |-> 0]
        ELSE IF l.kind = "raise" THEN l
        ELSE [kind |-> "ok", calls |-> l.calls,
              result |-> [document_path |-> doc_path,
                          question |-> question,
                          template |-> template_name,
                          answer |-> l.answer,
                          metadata |-> l.metadata]]

(***************************************************************************)
(* Dicts and sorting.                                                      *)
(***************************************************************************)
\* {}
EmptyDict == [k \in {} |-> 0]

\* dict.update(updates)
DictUpdate(d, updates) ==
    [k \in DOMAIN d \cup DOMAIN updates |->
        IF k \in DOMAIN updates THEN updates[k] ELSE d[k]]

\* dict.get(key, default)
DictGet(d, key, default) == IF key \in DOMAIN d THEN d[key] ELSE default

\* x put into the sorted list s behind every element whose key is not larger
RECURSIVE InsertByKey(_, _, _, _)
InsertByKey(x, kx, s, ks) ==
    IF s = <<>> THEN <<x>>
    ELSE IF kx < Head(ks) THEN <<x>> \o s
    ELSE <<Head(s)>> \o InsertByKey(x, kx, Tail(s), Tail(ks))

\* list.sort(key=...): s in ascending order of keys, stable; keys[i] is the
\* key of s[i]
RECURSIVE SortByKeys(_, _)
SortByKeys(s, keys) ==
    IF s = <<>> THEN <<>>
    ELSE LET n == Len(s)
             front == SortByKeys(SubSeq(s, 1, n - 1), SubSeq(keys, 1, n - 1))
             frontKeys == SortByKeys(SubSeq(keys, 1, n - 1), SubSeq(keys, 1, n - 1))
         IN  InsertByKey(s[n], keys[n], front, frontKeys)

(***************************************************************************)
(* Paths and the corpus.  A path is the sequence of its parts.             *)
(***************************************************************************)
\* DocumentIndexer.base_dir, "data/yoko" standing for the default corpus root
BaseDir == <<"data", "yoko">>

\* the *.txt files under the corpus root, by relative path
AllFiles == << <<"catA", "a.txt">>, <<"catB", "c.txt">>, <<"d.txt">>,
               <<"catA", "b.txt">>, <<"catB", "e.txt">> >>
CorpusFiles == {AllFiles[i] : i \in 1..MaxDocs}

\* Path.stem
Stem(name) ==
    CASE name = "a.txt" -> "a" [] name = "b.txt" -> "b" [] name = "c.txt" -> "c"
      [] name = "d.txt" -> "d" [] name = "e.txt" -> "e" [] OTHER -> name

\* the order of str(relative_path) under string comparison
RelPathRank(rel) ==
    CASE rel = <<"catA", "a.txt">> -> 1 [] rel = <<"catA", "b.txt">> -> 2
      [] rel = <<"catB", "c.txt">> -> 3 [] rel = <<"catB", "e.txt">> -> 4
      [] OTHER -> 5

(***************************************************************************)
(* DocumentIndexer                                                         *)
(***************************************************************************)
\* DocumentIndexer(): FileNotFoundError unless the base directory exists
DocumentIndexer(root_exists) ==
    IF root_exists THEN [kind |-> "ok"]
    ELSE [kind |-> "raise", error |-> "Base directory not found"]

\* a fingerprint whose read failure is not caught: the exception is the outcome
calculate_file_hash_unguarded(rel, readable) ==
    IF readable THEN <<"md5 of content", rel>> ELSE <<"raise", rel>>

\* _calculate_file_hash: the MD5 of the file's content, or of the path string
\* when open/read raises
calculate_file_hash(rel, readable) ==
    IF readable THEN <<"md5 of content", rel>> ELSE <<"md5 of path", BaseDir \o rel>>

\* _create_document_info
create_document_info(index, rel, readable) ==
    [index |-> index,
     path |-> BaseDir \o rel,
     relative_path |-> rel,
     filename |-> Stem(rel[Len(rel)]),
     subdir |-> IF Len(rel) > 1 THEN rel[Len(rel) - 1] ELSE "root",
     hash |-> calculate_file_hash(rel, readable)]

\* documents[i]['index'] = i
Reindex(docs) == [i \in 1..Len(docs) |-> [docs[i] EXCEPT !.index = i - 1]]

\* a set of files as a list, in some order (rglob)
RECURSIVE SomeOrder(_)
SomeOrder(files) ==
    IF files = {} THEN <<>>
    ELSE LET f == CHOOSE x \in files : TRUE IN <<f>> \o SomeOrder(files \ {f})

\* scan_documents, rglob yielding the files in the order found: a record per
\* file, sorted by relative path, indices 0..N-1
scan_documents(found, unreadable) ==
    LET docs == [i \in 1..Len(found) |->
                    create_document_info(i - 1, found[i], found[i] \notin unreadable)]
        keys == [i \in 1..Len(found) |-> RelPathRank(found[i])]
    IN  Reindex(SortByKeys(docs, keys))

\* [doc for doc in documents if doc['subdir'] in subdirs]
RECURSIVE SelectSubdirs(_, _)
SelectSubdirs(docs, subdirs) ==
    IF docs = <<>> THEN <<>>
    ELSE (IF Head(docs).subdir \in subdirs THEN <<Head(docs)>> ELSE <<>>)
             \o SelectSubdirs(Tail(docs), subdirs)

\* a filter that leaves the indices of the scan
filter_by_subdir_keeps_index(docs, subdirs) == SelectSubdirs(docs, subdirs)

\* filter_by_subdir: the list it returns
filter_by_subdir(docs, subdirs) == Reindex(SelectSubdirs(docs, subdirs))

\* filter_by_subdir sets doc['index'] on the dicts of its argument: what a list
\* that holds the same dicts looks like after the call returned out
SeenAfterFilter(docs, out) ==
    [i \in 1..Len(docs) |->
        IF \E j \in 1..Len(out) : out[j].relative_path = docs[i].relative_path
        THEN [docs[i] EXCEPT !.index =
                 out[CHOOSE j \in 1..Len(out) :
                         out[j].relative_path = docs[i].relative_path].index]
        ELSE docs[i]]

(***************************************************************************)
(* ExecutionManager: the run store.  A run directory holds metadata.json   *)
(* (meta, <<>> when absent), single_qa/*.json and single_qa/*.txt (by file *)
(* name without extension), aggregate_result.txt and                       *)
(* aggregate_document_answers.txt (<<>> when absent).                      *)
(***************************************************************************)
RunIds == {"r1"}

NoDir == [exists |-> FALSE, meta |-> <<>>, json |-> EmptyDict, txt |-> EmptyDict,
          aggregate |-> <<>>, answers |-> <<>>]

\* f"{doc_index:03d}": the decimal digits, zero-padded to three
RECURSIVE Digits(_)
Digits(n) == IF n < 10 THEN <<n>> ELSE Digits(n \div 10) \o <<n % 10>>
Pad3(n) == LET d == Digits(n) IN IF Len(d) < 3 THEN Rep(0, 3 - Len(d)) \o d ELSE d

\* generate_single_qa_filename, without the extension
generate_single_qa_filename(doc_index, doc_path) ==
    LET n == Len(doc_path)
        subdir == IF n >= 2 /\ doc_path[n - 1] # "data" THEN doc_path[n - 1] ELSE "misc"
    IN  <<Pad3(doc_index), subdir, Stem(doc_path[n])>>

\* create_run with an explicit run id: mkdir(exist_ok), save_metadata
create_run(st, run_id, now) ==
    [st EXCEPT ![run_id] =
        [@ EXCEPT !.exists = TRUE,
                  !.meta = <<[run_id |-> run_id, created_at |-> now,
                              status |-> "created", parameters |-> EmptyDict,
                              documents |-> <<>>, results |-> EmptyDict]>>]]

\* load_metadata raises FileNotFoundError unless metadata.json exists
MetadataExists(st, run_id) == st[run_id].exists /\ st[run_id].meta # <<>>
load_metadata(st, run_id) == st[run_id].meta[1]

\* an update that writes the updates in place of the stored metadata
update_metadata_replace(st, run_id, updates, now) ==
    [st EXCEPT ![run_id].meta = <<DictUpdate(updates, [updated_at |-> now])>>]

\* update_metadata: load, dict.update, updated_at, save
update_metadata(st, run_id, updates, now) ==
    [st EXCEPT ![run_id].meta =
        <<DictUpdate(DictUpdate(load_metadata(st, run_id), updates),
                     [updated_at |-> now])>>]

\* the human-readable text written next to the JSON
ResultText(result) ==
    [document |-> result.document_path, question |-> result.question,
     template |-> result.template, answer |-> result.answer,
     tokens |-> DictGet(result.metadata, "total_tokens", 0)]

\* save_single_qa_result: <name>.json and <name>.txt under single_qa/
save_single_qa_result(st, run_id, doc_index, doc_path, result) ==
    LET name == generate_single_qa_filename(doc_index, doc_path)
    IN  [st EXCEPT ![run_id].json = DictUpdate(@, [n \in {name} |-> result]),
                   ![run_id].txt = DictUpdate(@, [n \in {name} |-> ResultText(result)])]

\* the code points of the digits d followed by "_"
IndexPrefix(d) == [i \in 1..Len(d) |-> 48 + d[i]] \o <<95>>

\* whether string a sorts before string b, both given as code point lists
RECURSIVE CharsLess(_, _)
CharsLess(a, b) ==
    IF b = <<>> THEN FALSE
    ELSE IF a = <<>> THEN TRUE
    ELSE IF Head(a) # Head(b) THEN Head(a) < Head(b)
    ELSE CharsLess(Tail(a), Tail(b))

\* the order of subdirectory names and stems under string comparison
NameRank(s) ==
    CASE s = "a" -> 1 [] s = "b" -> 2 [] s = "c" -> 3 [] s = "catA" -> 4
      [] s = "catB" -> 5 [] s = "d" -> 6 [] s = "e" -> 7 [] s = "misc" -> 8
      [] OTHER -> 9

\* whether result file a sorts before result file b: sorted(glob("*.json"))
FileNameLess(a, b) ==
    LET pa == IndexPrefix(a[1])
        pb == IndexPrefix(b[1])
    IN  IF pa # pb THEN CharsLess(pa, pb)
        ELSE IF a[2] # b[2] THEN NameRank(a[2]) < NameRank(b[2])
        ELSE NameRank(a[3]) < NameRank(b[3])

\* the names of a set of result files in sorted order
RECURSIVE SortedNames(_)
SortedNames(names) ==
    IF names = {} THEN <<>>
    ELSE LET first == CHOOSE a \in names : \A b \in names \ {a} : FileNameLess(a, b)
         IN  <<first>> \o SortedNames(names \ {first})

\* load_single_qa_results
load_single_qa_results(st, run_id) ==
    LET names == SortedNames(DOMAIN st[run_id].json)
    IN  [i \in 1..Len(names) |-> st[run_id].json[names[i]]]

\* aggregate_result.txt opened for appending
save_aggregate_result_append(st, run_id, text) ==
    [st EXCEPT ![run_id].aggregate = Append(@, text)]

\* the aggregate result written among the per-document results
save_aggregate_result_in_single_qa(st, run_id, text) ==
    [st EXCEPT ![run_id].aggregate = <<text>>,
               ![run_id].txt = DictUpdate(@, [n \in {<<"aggregate_result">>} |-> text])]

\* save_aggregate_result
save_aggregate_result(st, run_id, text) ==
    [st EXCEPT ![run_id].aggregate = <<text>>]

(***************************************************************************)
(* The reduce phase.                                                       *)
(***************************************************************************)
\* the templates present under prompts/aggregate_qa
AggTemplates == {"focused", "consensus"}

\* whether the template carries the DOCUMENT ANSWERS START/END markers
HasAnswerMarkers(template_name) == template_name = "focused"

\* doc_path.parts[-2] if len(doc_path.parts) >= 2 else "root"
ParentName(doc_path) ==
    IF Len(doc_path) >= 2 THEN doc_path[Len(doc_path) - 1] ELSE "root"

\* a prompt whose loop stops one result short
create_aggregate_prompt_drops_last(question, single_results, template_name) ==
    IF template_name \notin AggTemplates
    THEN [kind |-> "raise", error |-> "Aggregate template not found"]
    ELSE [kind |-> "ok",
          prompt |-> [template |-> template_name,
                      question |-> question,
                      document_answers |->
                          [i \in 1..(Len(single_results) - 1) |->
                              [number |-> i,
                               subdir |-> ParentName(single_results[i].document_path),
                               filename |-> Stem(single_results[i].document_path[
                                                Len(single_results[i].document_path)]),
                               answer |-> single_results[i].answer]]]]

\* create_aggregate_prompt: one delimited block per result, in list order
create_aggregate_prompt(question, single_results, template_name) ==
    IF template_name \notin AggTemplates
    THEN [kind |-> "raise", error |-> "Aggregate template not found"]
    ELSE [kind |-> "ok",
          prompt |-> [template |-> template_name,
                      question |-> question,
                      document_answers |->
                          [i \in 1..Len(single_results) |->
                              [number |-> i,
                               subdir |-> ParentName(single_results[i].document_path),
                               filename |-> Stem(single_results[i].document_path[
                                                Len(single_results[i].document_path)]),
                               answer |-> single_results[i].answer]]]]

\* a reduce phase that calls the backend again when the call raises
execute_aggregate_phase_retries(question, single_results, aggregate_template, b) ==
    LET p == create_aggregate_prompt(question, single_results, aggregate_template)
        r == query_llm(b)
    IN  IF p.kind = "raise"
        THEN [kind |-> "raise", error |-> p.error, answers |-> <<>>, llm_calls |-> 0]
        ELSE LET answers == IF HasAnswerMarkers(aggregate_template)
                            THEN <<p.prompt.document_answers>> ELSE <<>>
             IN  IF r.kind = "raise"
                 THEN [kind |-> "raise", error |-> r.error, answers |-> answers,
                       llm_calls |-> MaxRetries]
                 ELSE [kind |-> "ok", answers |-> answers, llm_calls |-> 1,
                       prompt |-> p.prompt,
                       aggregate_answer |-> r.answer,
                       aggregate_metadata |-> r.metadata,
                       aggregate_time |-> b.secs]

\* _execute_aggregate_phase with the backend doing b on its one call:
\* answers is what is written to aggregate_document_answers.txt, if anything
execute_aggregate_phase(question, single_results, aggregate_template, b) ==
    LET p == create_aggregate_prompt(question, single_results, aggregate_template)
        r == query_llm(b)
    IN  IF p.kind = "raise"
        THEN [kind |-> "raise", error |-> p.error, answers |-> <<>>, llm_calls |-> 0]
        ELSE LET answers == IF HasAnswerMarkers(aggregate_template)
                            THEN <<p.prompt.document_answers>> ELSE <<>>
             IN  IF r.kind = "raise"
                 THEN [kind |-> "raise", error |-> r.error, answers |-> answers,
                       llm_calls |-> 1]
                 ELSE [kind |-> "ok", answers |-> answers, llm_calls |-> 1,
                       prompt |-> p.prompt,
                       aggregate_answer |-> r.answer,
                       aggregate_metadata |-> r.metadata,
                       aggregate_time |-> b.secs]

\* _calculate_statistics: total_single_tokens
RECURSIVE SumTokens(_)
SumTokens(rs) ==
    IF rs = <<>> THEN 0
    ELSE DictGet(Head(rs).metadata, "total_tokens", 0) + SumTokens(Tail(rs))

\* the aggregate_result text _finalize_execution builds
FinalReport(c, now, docs, single_results, agg) ==
    [run_id |-> c.run_id, written_at |-> now, question |-> c.question,
     single_template |-> c.single_template,
     aggregate_template |-> c.aggregate_template,
     parallel |-> c.parallel, n_docs |-> Len(docs),
     answer |-> agg.aggregate_answer,
     single_tokens |-> SumTokens(single_results),
     aggregate_tokens |-> DictGet(agg.aggregate_metadata, "total_tokens", 0),
     doc_lines |-> [i \in 1..Len(docs) |->
                       <<docs[i].index, docs[i].subdir, docs[i].filename>>]]

\* the aggregate_result text run_aggregate_only builds
ResumeReport(run_id, now, metadata, aggregate_template, single_results, agg) ==
    [run_id |-> run_id, written_at |-> now,
     question |-> metadata.parameters.question,
     single_template |-> metadata.parameters.single_template,
     aggregate_template |-> aggregate_template,
     parallel |-> metadata.parameters.parallel, n_docs |-> Len(single_results),
     answer |-> agg.aggregate_answer,
     single_tokens |-> SumTokens(single_results),
     aggregate_tokens |-> DictGet(agg.aggregate_metadata, "total_tokens", 0),
     doc_lines |-> [i \in 1..Len(single_results) |->
                       <<i - 1, ParentName(single_results[i].document_path),
                         Stem(single_results[i].document_path[
                                  Len(single_results[i].document_path)])>>]]

(***************************************************************************)
(* Inputs of the orchestrator model.                                       *)
(***************************************************************************)
\* a deterministic backend stub: for the document named rel it either answers
\* with a text that names the document, or refuses the connection
AnswerFor(rel) == Rep("x", MinAnswerLen) \o <<Stem(rel[Len(rel)]), Blank>>
BackendModes == {"up", "down"}
ScriptOf(rel, mode) ==
    [k \in 1..MaxRetries |->
        IF mode = "up" THEN TextResponse(AnswerFor(rel), 1) ELSE ConnectionError]

\* what the backend does on the one call of a reduce phase
AggBackendOutcomes ==
    {[kind |-> "raise", msg |-> "connection refused", secs |-> 1],
     [kind |-> "text", text |-> <<>>, tokens |-> 3, secs |-> 1],
     [kind |-> "text", text |-> <<"A">>, tokens |-> 5, secs |-> 1],
     [kind |-> "text", text |-> <<"B", " ">>, tokens |-> 7, secs |-> 2]}

\* subdir_filter: the empty set stands for None
Filters == {{}, {"catA"}}

NoCall == [kind |-> "none", run_id |-> "r1", question |-> "Q",
           single_template |-> "focused", aggregate_template |-> "focused",
           parallel |-> 1, subdir_filter |-> {}]

NoLocals == [single_results |-> <<>>, agg |-> <<>>]

(***************************************************************************)
(* run_aggregate_qa                                                        *)
(***************************************************************************)
CallOver == pc \in {"idle", "returned", "raised"}

\* the caller invokes run_aggregate_qa with a fresh explicit run id
StartRunAggregateQA ==
    /\ CallOver
    /\ callsMade < MaxCalls
    /\ \E r \in RunIds, t \in {"focused", "nosuch"}, f \in Filters,
          w \in 1..MaxWorkers :
          /\ ~store[r].exists
          /\ call' = [kind |-> "qa", run_id |-> r, question |-> "Q",
                   single_template |-> "focused", aggregate_template |-> t,
                   parallel |-> w, subdir_filter |-> f]
    /\ pc' = "setup"
    /\ callsMade' = callsMade + 1
    /\ documents' = <<>>
    /\ submitted' = 0 /\ nThreads' = 0 /\ task' = <<>> /\ taskOut' = <<>>
    /\ results' = <<>>
    /\ locals' = NoLocals
    /\ exc' = <<>>
    /\ statusLog' = <<>>
    /\ UNCHANGED <<qaVars, unitVars, backend, corpusRoot, store, clock,
                   dispatched, llmCalls, resumed>>

\* _setup_execution when the corpus root exists: create_run, scan, filter,
\* update_metadata(status running)
SetupExecution ==
    /\ pc = "setup"
    /\ DocumentIndexer(corpusRoot).kind = "ok"
    /\ LET scanned == scan_documents(SomeOrder(CorpusFiles), {})
           docs == IF call.subdir_filter # {}
                   THEN filter_by_subdir(scanned, call.subdir_filter)
                   ELSE scanned
           created == create_run(store, call.run_id, clock)
       IN  /\ documents' = docs
           /\ store' = update_metadata(created, call.run_id,
                  [status |-> "running",
                   parameters |-> [question |-> call.question,
                                   single_template |-> call.single_template,
                                   aggregate_template |-> call.aggregate_template,
                                   parallel |-> call.parallel,
                                   subdir_filter |-> call.subdir_filter],
                   documents |-> [i \in 1..Len(docs) |->
                                     [index |-> docs[i].index,
                                      path |-> docs[i].relative_path]]],
                  clock + 1)
           /\ task' = [p \in 1..Len(docs) |-> "new"]
           /\ taskOut' = [p \in 1..Len(docs) |-> <<>>]
    /\ clock' = clock + 2
    /\ statusLog' = statusLog \o <<"created", "running">>
    /\ pc' = "map"
    /\ UNCHANGED <<qaVars, unitVars, backend, corpusRoot, call, callsMade,
                   submitted, nThreads, results, locals, exc, dispatched,
                   llmCalls, resumed>>

\* a setup that records setup_failed and goes on with no documents
SetupExecutionFailsContinues ==
    /\ pc = "setup"
    /\ DocumentIndexer(corpusRoot).kind = "raise"
    /\ store' = update_metadata(create_run(store, call.run_id, clock), call.run_id,
                    [status |-> "setup_failed", error |-> "Setup error"], clock + 1)
    /\ clock' = clock + 2
    /\ statusLog' = statusLog \o <<"created", "setup_failed">>
    /\ pc' = "map"
    /\ UNCHANGED <<qaVars, unitVars, backend, corpusRoot, call, callsMade,
                   documents, batchVars, locals, exc, dispatched, llmCalls,
                   resumed>>

\* _setup_execution when DocumentIndexer() raises FileNotFoundError:
\* update_metadata(status setup_failed), raise RuntimeError
SetupExecutionFails ==
    /\ pc = "setup"
    /\ DocumentIndexer(corpusRoot).kind = "raise"
    /\ store' = update_metadata(create_run(store, call.run_id, clock), call.run_id,
                    [status |-> "setup_failed", error |-> "Setup error"], clock + 1)
    /\ clock' = clock + 2
    /\ statusLog' = statusLog \o <<"created", "setup_failed">>
    /\ exc' = <<[phase |-> "setup", error |-> DocumentIndexer(corpusRoot).error]>>
    /\ pc' = "raised"
    /\ UNCHANGED <<qaVars, unitVars, backend, corpusRoot, call, callsMade,
                   documents, batchVars, locals, dispatched, llmCalls,
                   resumed>>

(***************************************************************************)
(* run_single_qa_batch: the executor, its worker threads, as_completed.    *)
(***************************************************************************)
Positions == 1..Len(documents)
Running == {p \in Positions : task[p] \in {"running", "answered"}}
Finished == {p \in Positions : task[p] \in {"done", "failed", "collected"}}

\* an executor that spawns a thread for every task
AdjustThreadCountUnbounded(n, max_workers) == n + 1

\* ThreadPoolExecutor(max_workers=max_workers): a submit spawns a worker
\* thread while the executor has fewer than max_workers
AdjustThreadCount(n, max_workers) == IF n < max_workers THEN n + 1 ELSE n

\* a submit loop that walks the list from its end
SubmitFromLast ==
    /\ pc = "map"
    /\ submitted < Len(documents)
    /\ submitted' = submitted + 1
    /\ task' = [task EXCEPT ![Len(documents) - submitted] = "queued"]
    /\ nThreads' = AdjustThreadCount(nThreads, call.parallel)
    /\ UNCHANGED <<qaVars, unitVars, backend, corpusRoot, store, clock, pc,
                   call, callsMade, documents, taskOut, results, locals, exc,
                   statusLog, dispatched, llmCalls, resumed>>

\* executor.submit(run_single_qa, doc, pbar), in the order of the list
Submit ==
    /\ pc = "map"
    /\ submitted < Len(documents)
    /\ submitted' = submitted + 1
    /\ task' = [task EXCEPT ![submitted + 1] = "queued"]
    /\ nThreads' = AdjustThreadCount(nThreads, call.parallel)
    /\ UNCHANGED <<qaVars, unitVars, backend, corpusRoot, store, clock, pc,
                   call, callsMade, documents, taskOut, results, locals, exc,
                   statusLog, dispatched, llmCalls, resumed>>

\* every task is submitted: the main thread enters the as_completed loop
AllSubmitted ==
    /\ pc = "map"
    /\ submitted = Len(documents)
    /\ pc' = "collect"
    /\ UNCHANGED <<qaVars, unitVars, backend, corpusRoot, store, clock, call,
                   callsMade, documents, batchVars, locals, exc, statusLog,
                   dispatched, llmCalls, resumed>>

\* a free worker thread takes the oldest queued task and calls run_single_qa
WorkerStart(p) ==
    /\ task[p] = "queued"
    /\ \A q \in Positions : q < p => task[q] # "queued"
    /\ Cardinality(Running) < nThreads
    /\ task' = [task EXCEPT ![p] = "running"]
    /\ dispatched' = dispatched + 1
    /\ UNCHANGED <<qaVars, unitVars, backend, corpusRoot, store, clock, pc,
                   call, callsMade, documents, submitted, nThreads, taskOut,
                   results, locals, exc, statusLog, resumed, llmCalls>>

\* run_single_qa: single_document_qa(doc_info['path'], question, template_name)
WorkerQA(p) ==
    /\ task[p] = "running"
    /\ \E out \in {single_document_qa(documents[p].path, "readable",
                                       call.question, call.single_template,
                                       ScriptOf(documents[p].relative_path,
                                                backend[documents[p].relative_path]))} :
           /\ taskOut' = [taskOut EXCEPT ![p] = <<out>>]
           /\ task' = [task EXCEPT ![p] = IF out.kind = "ok" THEN "answered"
                                          ELSE "failed"]
           /\ llmCalls' = llmCalls + out.calls
    /\ UNCHANGED <<qaVars, unitVars, backend, corpusRoot, store, clock, pc,
                   call, callsMade, documents, submitted, nThreads, results,
                   locals, exc, statusLog, dispatched, resumed>>

\* a worker that returns its result without saving it
WorkerSaveSkips(p) ==
    /\ task[p] = "answered"
    /\ task' = [task EXCEPT ![p] = "done"]
    /\ UNCHANGED <<qaVars, unitVars, backend, corpusRoot, store, clock, pc, call,
                   callsMade, documents, submitted, nThreads, taskOut, results,
                   locals, exc, statusLog, dispatched, llmCalls, resumed>>

\* workers that all see the last document of the list when they save
WorkerSaveLastDoc(p) ==
    /\ task[p] = "answered"
    /\ store' = save_single_qa_result(store, call.run_id,
                                      documents[Len(documents)].index,
                                      documents[Len(documents)].path,
                                      taskOut[p][1].result)
    /\ task' = [task EXCEPT ![p] = "done"]
    /\ UNCHANGED <<qaVars, unitVars, backend, corpusRoot, clock, pc, call,
                   callsMade, documents, submitted, nThreads, taskOut, results,
                   locals, exc, statusLog, dispatched, llmCalls, resumed>>

\* run_single_qa: save_single_qa_result(run_id, index, path, result); return
WorkerSave(p) ==
    /\ task[p] = "answered"
    /\ store' = save_single_qa_result(store, call.run_id, documents[p].index,
                                      documents[p].path, taskOut[p][1].result)
    /\ task' = [task EXCEPT ![p] = "done"]
    /\ UNCHANGED <<qaVars, unitVars, backend, corpusRoot, clock, pc, call,
                   callsMade, documents, submitted, nThreads, taskOut, results,
                   locals, exc, statusLog, dispatched, llmCalls, resumed>>

\* as_completed yields a finished future; future.result() returns its result
Collect(p) ==
    /\ pc = "collect"
    /\ task[p] = "done"
    /\ results' = Append(results, taskOut[p][1].result)
    /\ task' = [task EXCEPT ![p] = "collected"]
    /\ UNCHANGED <<qaVars, unitVars, backend, corpusRoot, store, clock, pc,
                   call, callsMade, documents, submitted, nThreads, taskOut,
                   locals, exc, statusLog, dispatched, llmCalls, resumed>>

\* an executor that cancels the queued futures when a result raises
\* (shutdown(cancel_futures=True)): the cancelled tasks never run
CollectRaisesCancels(p) ==
    /\ pc = "collect"
    /\ task[p] = "failed"
    /\ exc' = <<[phase |-> "map", error |-> taskOut[p][1].error]>>
    /\ task' = [q \in Positions |-> IF task[q] = "queued" THEN "cancelled"
                                    ELSE task[q]]
    /\ pc' = "drain"
    /\ UNCHANGED <<qaVars, unitVars, backend, corpusRoot, store, clock, call,
                   callsMade, documents, submitted, nThreads, taskOut, results,
                   locals, statusLog, dispatched, llmCalls, resumed>>

\* a collector that swallows a worker's exception and goes on
CollectRaisesSwallows(p) ==
    /\ pc = "collect"
    /\ task[p] = "failed"
    /\ task' = [task EXCEPT ![p] = "collected"]
    /\ UNCHANGED <<qaVars, unitVars, backend, corpusRoot, store, clock, pc,
                   call, callsMade, documents, submitted, nThreads, taskOut,
                   results, locals, exc, statusLog, dispatched, llmCalls, resumed>>

\* as_completed yields a finished future; future.result() raises what the
\* worker raised, and the with block waits for the executor to shut down
CollectRaises(p) ==
    /\ pc = "collect"
    /\ task[p] = "failed"
    /\ exc' = <<[phase |-> "map", error |-> taskOut[p][1].error]>>
    /\ pc' = "drain"
    /\ UNCHANGED <<qaVars, unitVars, backend, corpusRoot, store, clock, call,
                   callsMade, documents, batchVars, locals, statusLog,
                   dispatched, llmCalls, resumed>>

\* results.sort(key=lambda x: doc_path_to_index.get(x['document_path'], 999))
doc_path_to_index(docs) ==
    [path \in {docs[i].path : i \in 1..Len(docs)} |->
        docs[CHOOSE i \in 1..Len(docs) :
                 /\ docs[i].path = path
                 /\ \A j \in 1..Len(docs) : docs[j].path = path => j <= i].index]

SortResults(rs, docs) ==
    SortByKeys(rs, [i \in 1..Len(rs) |->
                      DictGet(doc_path_to_index(docs), rs[i].document_path,
                              DefaultSortKey)])

\* a batch that returns as soon as the first result is collected
BatchReturnsEarly ==
    /\ pc = "collect"
    /\ \E p \in Positions : task[p] = "collected"
    /\ locals' = [locals EXCEPT !.single_results = SortResults(results, documents)]
    /\ pc' = "reduce"
    /\ UNCHANGED <<qaVars, unitVars, backend, corpusRoot, store, clock, call,
                   callsMade, documents, batchVars, exc, statusLog, dispatched,
                   llmCalls, resumed>>

\* every future was collected: the executor shuts down, the results are sorted
\* and returned to _execute_single_qa_phase, which returns them
BatchReturns ==
    /\ pc = "collect"
    /\ \A p \in Positions : task[p] = "collected"
    /\ locals' = [locals EXCEPT !.single_results = SortResults(results, documents)]
    /\ pc' = "reduce"
    /\ UNCHANGED <<qaVars, unitVars, backend, corpusRoot, store, clock, call,
                   callsMade, documents, batchVars, exc, statusLog, dispatched,
                   llmCalls, resumed>>

\* a failure handler that also removes the results persisted so far
BatchRaisesCleansUp ==
    /\ pc = "drain"
    /\ Finished = Positions
    /\ store' = update_metadata(
                    [store EXCEPT ![call.run_id].json = EmptyDict,
                                  ![call.run_id].txt = EmptyDict],
                    call.run_id,
                    [status |-> "single_qa_failed", error |-> "Single QA error"],
                    clock)
    /\ clock' = clock + 1
    /\ statusLog' = Append(statusLog, "single_qa_failed")
    /\ pc' = "except"
    /\ UNCHANGED <<qaVars, unitVars, backend, corpusRoot, call, callsMade,
                   documents, batchVars, locals, exc, dispatched, llmCalls,
                   resumed>>

\* an executor that lets the exception out without joining its workers
BatchRaisesNoWait ==
    /\ pc = "drain"
    /\ store' = update_metadata(store, call.run_id,
                    [status |-> "single_qa_failed", error |-> "Single QA error"],
                    clock)
    /\ clock' = clock + 1
    /\ statusLog' = Append(statusLog, "single_qa_failed")
    /\ pc' = "except"
    /\ UNCHANGED <<qaVars, unitVars, backend, corpusRoot, call, callsMade,
                   documents, batchVars, locals, exc, dispatched, llmCalls,
                   resumed>>

\* shutdown(wait=True) is over: the exception leaves run_single_qa_batch, and
\* _execute_single_qa_phase records single_qa_failed and raises RuntimeError
BatchRaises ==
    /\ pc = "drain"
    /\ Finished = Positions
    /\ store' = update_metadata(store, call.run_id,
                    [status |-> "single_qa_failed", error |-> "Single QA error"],
                    clock)
    /\ clock' = clock + 1
    /\ statusLog' = Append(statusLog, "single_qa_failed")
    /\ pc' = "except"
    /\ UNCHANGED <<qaVars, unitVars, backend, corpusRoot, call, callsMade,
                   documents, batchVars, locals, exc, dispatched, llmCalls,
                   resumed>>

(***************************************************************************)
(* run_aggregate_qa: reduce, finalize, the outer except clause.            *)
(***************************************************************************)
\* aggregate_document_answers.txt in the run directory, when it is written
WriteAnswersFile(st, run_id, answers) ==
    IF answers = <<>> THEN st ELSE [st EXCEPT ![run_id].answers = answers]

\* Phase 3: _execute_aggregate_phase
AggregatePhase ==
    /\ pc = "reduce"
    /\ \E b \in AggBackendOutcomes :
          LET out == execute_aggregate_phase(call.question, locals.single_results,
                                             call.aggregate_template, b)
          IN  /\ store' = WriteAnswersFile(store, call.run_id, out.answers)
              /\ llmCalls' = llmCalls + out.llm_calls
              /\ IF out.kind = "ok"
                 THEN /\ locals' = [locals EXCEPT !.agg = <<out>>]
                      /\ pc' = "finalize"
                      /\ exc' = exc
                 ELSE /\ locals' = locals
                      /\ pc' = "except"
                      /\ exc' = <<[phase |-> "reduce", error |-> out.error]>>
    /\ UNCHANGED <<qaVars, unitVars, backend, corpusRoot, clock, call,
                   callsMade, documents, batchVars, statusLog, dispatched,
                   resumed>>

\* Phase 4: _finalize_execution: save_aggregate_result, status completed
FinalizeExecution ==
    /\ pc = "finalize"
    /\ store' = update_metadata(
                    save_aggregate_result(store, call.run_id,
                        FinalReport(call, clock, documents, locals.single_results,
                                    locals.agg[1])),
                    call.run_id,
                    [status |-> "completed",
                     results |-> [single_qa_count |-> Len(locals.single_results),
                                  total_single_tokens |->
                                      SumTokens(locals.single_results),
                                  aggregate_tokens |->
                                      DictGet(locals.agg[1].aggregate_metadata,
                                              "total_tokens", 0)]],
                    clock + 1)
    /\ clock' = clock + 2
    /\ statusLog' = Append(statusLog, "completed")
    /\ pc' = "returned"
    /\ UNCHANGED <<qaVars, unitVars, backend, corpusRoot, call, callsMade,
                   documents, batchVars, locals, exc, dispatched, llmCalls,
                   resumed>>

\* a finalization handler that records the failure and does not raise
FinalizeExecutionFailsReturns ==
    /\ pc = "finalize"
    /\ store' = update_metadata(store, call.run_id,
                    [status |-> "finalization_failed",
                     error |-> "Finalization error"], clock + 1)
    /\ clock' = clock + 2
    /\ statusLog' = Append(statusLog, "finalization_failed")
    /\ exc' = <<[phase |-> "finalize", error |-> "cannot write aggregate_result.txt"]>>
    /\ pc' = "returned"
    /\ UNCHANGED <<qaVars, unitVars, backend, corpusRoot, call, callsMade,
                   documents, batchVars, locals, dispatched, llmCalls,
                   resumed>>

\* Phase 4 when save_aggregate_result raises (the file cannot be written):
\* status finalization_failed, raise RuntimeError
FinalizeExecutionFails ==
    /\ pc = "finalize"
    /\ store' = update_metadata(store, call.run_id,
                    [status |-> "finalization_failed",
                     error |-> "Finalization error"], clock + 1)
    /\ clock' = clock + 2
    /\ statusLog' = Append(statusLog, "finalization_failed")
    /\ exc' = <<[phase |-> "finalize", error |-> "cannot write aggregate_result.txt"]>>
    /\ pc' = "except"
    /\ UNCHANGED <<qaVars, unitVars, backend, corpusRoot, call, callsMade,
                   documents, batchVars, locals, dispatched, llmCalls,
                   resumed>>

\* an except clause that marks the run as running again
OuterExceptRestart ==
    /\ pc = "except"
    /\ store' = update_metadata(store, call.run_id,
                    [status |-> "running", error |-> exc[1].error], clock)
    /\ clock' = clock + 1
    /\ statusLog' = Append(statusLog, "running")
    /\ pc' = "raised"
    /\ UNCHANGED <<qaVars, unitVars, backend, corpusRoot, call, callsMade,
                   documents, batchVars, locals, exc, dispatched, llmCalls,
                   resumed>>

\* cleanup_run: shutil.rmtree(run_dir) when the directory exists
cleanup_run(st, run_id) ==
    IF st[run_id].exists THEN [st EXCEPT ![run_id] = NoDir] ELSE st

\* a failure handler that removes the run it could not complete
OuterExceptCleansUp ==
    /\ pc = "except"
    /\ store' = cleanup_run(store, call.run_id)
    /\ clock' = clock + 1
    /\ statusLog' = Append(statusLog, "failed")
    /\ pc' = "raised"
    /\ UNCHANGED <<qaVars, unitVars, backend, corpusRoot, call, callsMade,
                   documents, batchVars, locals, exc, dispatched, llmCalls,
                   resumed>>

\* except Exception as e: update_metadata(status failed); raise e
OuterExcept ==
    /\ pc = "except"
    /\ store' = update_metadata(store, call.run_id,
                    [status |-> "failed", error |-> exc[1].error], clock)
    /\ clock' = clock + 1
    /\ statusLog' = Append(statusLog, "failed")
    /\ pc' = "raised"
    /\ UNCHANGED <<qaVars, unitVars, backend, corpusRoot, call, callsMade,
                   documents, batchVars, locals, exc, dispatched, llmCalls,
                   resumed>>

(***************************************************************************)
(* run_aggregate_only                                                      *)
(***************************************************************************)
\* a resume that marks the run completed once it has an aggregate result
run_aggregate_only_completes(st, run_id, aggregate_template, b, now, metadata) ==
    IF "question" \notin DOMAIN metadata.parameters
    THEN [kind |-> "raise", error |-> "KeyError: question", store |-> st,
          llm_calls |-> 0]
    ELSE LET single_results == load_single_qa_results(st, run_id)
             out == execute_aggregate_phase(metadata.parameters.question,
                        single_results, aggregate_template, b)
             st1 == WriteAnswersFile(st, run_id, out.answers)
         IN  IF out.kind = "raise"
             THEN [kind |-> "raise", error |-> out.error, store |-> st1,
                   llm_calls |-> out.llm_calls]
             ELSE [kind |-> "ok", llm_calls |-> out.llm_calls,
                   store |-> update_metadata(
                       save_aggregate_result(st1, run_id,
                           ResumeReport(run_id, now, metadata,
                               aggregate_template, single_results, out)),
                       run_id,
                       [status |-> "completed",
                        aggregate_template |-> aggregate_template,
                        aggregate_time |-> out.aggregate_time,
                        aggregate_tokens |->
                            DictGet(out.aggregate_metadata, "total_tokens", 0)],
                       now + 1)]

\* run_aggregate_only once load_metadata has returned metadata
run_aggregate_only_loaded(st, run_id, aggregate_template, b, now, metadata) ==
    IF "question" \notin DOMAIN metadata.parameters
    THEN [kind |-> "raise", error |-> "KeyError: question", store |-> st,
          llm_calls |-> 0]
    ELSE LET single_results == load_single_qa_results(st, run_id)
             out == execute_aggregate_phase(metadata.parameters.question,
                        single_results, aggregate_template, b)
             st1 == WriteAnswersFile(st, run_id, out.answers)
         IN  IF out.kind = "raise"
             THEN [kind |-> "raise", error |-> out.error, store |-> st1,
                   llm_calls |-> out.llm_calls]
             ELSE [kind |-> "ok", llm_calls |-> out.llm_calls,
                   store |-> update_metadata(
                       save_aggregate_result(st1, run_id,
                           ResumeReport(run_id, now, metadata,
                               aggregate_template, single_results, out)),
                       run_id,
                       [aggregate_template |-> aggregate_template,
                        aggregate_time |-> out.aggregate_time,
                        aggregate_tokens |->
                            DictGet(out.aggregate_metadata, "total_tokens", 0)],
                       now + 1)]

\* a resume that creates the run directory it does not find
run_aggregate_only_creates(st, run_id, aggregate_template, b, now) ==
    IF ~MetadataExists(st, run_id)
    THEN [kind |-> "raise", error |-> "Metadata not found",
          store |-> create_run(st, run_id, now), llm_calls |-> 0]
    ELSE run_aggregate_only_loaded(st, run_id, aggregate_template, b, now,
                                   load_metadata(st, run_id))

\* what one call of run_aggregate_only(run_id, aggregate_template) does to the
\* store with the backend doing b: the new store and how the call ended
run_aggregate_only(st, run_id, aggregate_template, b, now) ==
    IF ~MetadataExists(st, run_id)
    THEN [kind |-> "raise", error |-> "Metadata not found", store |-> st,
          llm_calls |-> 0]
    ELSE run_aggregate_only_loaded(st, run_id, aggregate_template, b, now,
                                   load_metadata(st, run_id))

\* the caller invokes run_aggregate_only
RunAggregateOnly ==
    /\ CallOver
    /\ callsMade < MaxCalls
    /\ \E r \in RunIds, t \in AggTemplates \cup {"nosuch"}, b \in AggBackendOutcomes :
          LET out == run_aggregate_only(store, r, t, b, clock)
          IN  /\ call' = [NoCall EXCEPT !.kind = "agg", !.run_id = r,
                                        !.aggregate_template = t]
              /\ store' = out.store
              /\ llmCalls' = llmCalls + out.llm_calls
              /\ pc' = IF out.kind = "ok" THEN "returned" ELSE "raised"
              /\ exc' = IF out.kind = "ok" THEN <<>>
                        ELSE <<[phase |-> "resume", error |-> out.error]>>
              /\ locals' = [NoLocals EXCEPT !.agg = <<b>>]
              /\ resumed' = IF out.kind = "ok" THEN resumed + 1 ELSE resumed
    /\ callsMade' = callsMade + 1
    /\ clock' = clock + 2
    /\ statusLog' = <<>>
    /\ documents' = <<>>
    /\ submitted' = 0 /\ nThreads' = 0 /\ task' = <<>> /\ taskOut' = <<>>
    /\ results' = <<>>
    /\ UNCHANGED <<qaVars, unitVars, backend, corpusRoot, dispatched>>

(***************************************************************************)
(* Spec: calls of run_aggregate_qa and run_aggregate_only on an empty run  *)
(* base directory.                                                         *)
(***************************************************************************)
QAIdle ==
    /\ qaDoc = "readable"
    /\ qaTemplate = "focused"
    /\ qaScript = [k \in 1..MaxRetries |-> ConnectionError]
    /\ qaOut = <<>>

\* the orchestrations that call create_run() at the same time, none started
Racers == {"A", "B"}
NoRacers == [p \in Racers |-> [pc |-> "idle", next_num |-> 0, run_id |-> <<>>]]

\* the command line of a call without arguments
NoArgs == [question |-> "", typed |-> "", run_id |-> "", aggregate_only |-> FALSE,
           single_template |-> "focused", aggregate_template |-> "focused",
           parallel |-> 3]

UnitIdle ==
    /\ lastOp = [op |-> "none"]
    /\ runDirs = {}
    /\ today = "d1"
    /\ newIds = <<>>
    /\ rglobOrder = <<>>
    /\ scanOut = <<>>
    /\ filterOut = <<>>
    /\ lastFilter = [op |-> "none"]
    /\ mainArgs = NoArgs
    /\ mainOut = <<>>
    /\ racers = NoRacers

OrchIdle ==
    /\ store = [r \in RunIds |-> NoDir]
    /\ clock = 0
    /\ pc = "idle"
    /\ call = NoCall
    /\ callsMade = 0
    /\ documents = <<>>
    /\ submitted = 0 /\ nThreads = 0 /\ task = <<>> /\ taskOut = <<>>
    /\ results = <<>>
    /\ locals = NoLocals
    /\ exc = <<>>
    /\ statusLog = <<>>
    /\ dispatched = 0
    /\ llmCalls = 0
    /\ resumed = 0

Init ==
    /\ QAIdle
    /\ UnitIdle
    /\ backend \in [CorpusFiles -> BackendModes]
    /\ corpusRoot \in BOOLEAN
    /\ OrchIdle

Next ==
    \/ StartRunAggregateQA
    \/ SetupExecution
    \/ SetupExecutionFails
    \/ Submit
    \/ AllSubmitted
    \/ \E p \in Positions : WorkerStart(p)
    \/ \E p \in Positions : WorkerQA(p)
    \/ \E p \in Positions : WorkerSave(p)
    \/ \E p \in Positions : Collect(p)
    \/ \E p \in Positions : CollectRaises(p)
    \/ BatchReturns
    \/ BatchRaises
    \/ AggregatePhase
    \/ FinalizeExecution
    \/ FinalizeExecutionFails
    \/ OuterExcept
    \/ RunAggregateOnly

Spec == Init /\ [][Next]_vars

\* the steps of the executor's worker threads
WorkerNext ==
    \E p \in Positions : WorkerStart(p) \/ WorkerQA(p) \/ WorkerSave(p)

\* one call of run_aggregate_qa up to the end of its map phase
BatchNext ==
    \/ StartRunAggregateQA
    \/ SetupExecution
    \/ SetupExecutionFails
    \/ Submit
    \/ AllSubmitted
    \/ WorkerNext
    \/ \E p \in Positions : Collect(p)
    \/ \E p \in Positions : CollectRaises(p)
    \/ BatchReturns
    \/ BatchRaises

\* the map phase with worker threads that keep being scheduled: a thread that
\* can take a step eventually takes one (single_document_qa returns or raises)
FairSpec == Init /\ [][BatchNext]_vars /\ WF_vars(WorkerNext)

(***************************************************************************)
(* SpecQA: single_document_qa applied to every bounded input.              *)
(***************************************************************************)
QAPath == <<"data", "yoko", "catA", "a.txt">>
QAQuestion == "Q"
Scripts == [1..MaxRetries -> BackendOutcomes]

QAInit ==
    /\ qaDoc \in DocFileStates
    /\ qaTemplate \in SingleTemplates \cup {"nosuch"}
    /\ qaScript \in Scripts
    /\ qaOut = <<>>
    /\ UnitIdle
    /\ backend = [f \in CorpusFiles |-> "up"]
    /\ corpusRoot = TRUE
    /\ OrchIdle

QACall ==
    /\ qaOut = <<>>
    /\ qaOut' = <<single_document_qa(QAPath, qaDoc, QAQuestion, qaTemplate, qaScript)>>
    /\ UNCHANGED <<qaDoc, qaTemplate, qaScript, unitVars, orchVars>>

QANext == QACall

SpecQA == QAInit /\ [][QANext]_vars

(***************************************************************************)
(* SpecStore: calls of ExecutionManager methods on the run directory r1,   *)
(* in any order.                                                           *)
(***************************************************************************)
\* number of ExecutionManager calls made
MaxStoreOps == 3

\* the updates dicts handed to update_metadata
MetadataUpdates ==
    {[status |-> "running"],
     [status |-> "failed", error |-> "e"],
     [aggregate_template |-> "focused", aggregate_tokens |-> 5],
     [status |-> "completed", updated_at |-> 0]}

\* the document indices results are saved under
SaveIndices == {0, 1, 999, 1000}

\* a result dict of single_document_qa for the document rel
ResultOf(rel) ==
    [document_path |-> BaseDir \o rel, question |-> "Q", template |-> "focused",
     answer |-> Strip(AnswerFor(rel)), metadata |-> [total_tokens |-> 1]]

StoreInit ==
    /\ QAIdle
    /\ UnitIdle
    /\ backend = [f \in CorpusFiles |-> "up"]
    /\ corpusRoot = TRUE
    /\ OrchIdle

\* create_run(run_id="r1")
StoreCreateRun ==
    /\ clock < MaxStoreOps
    /\ store' = create_run(store, "r1", clock)
    /\ lastOp' = [op |-> "create_run", run_id |-> "r1"]
    /\ clock' = clock + 1
    /\ UNCHANGED <<qaVars, runDirs, today, newIds, rglobOrder, scanOut, filterOut,
                   lastFilter, mainArgs, mainOut, racers, backend, corpusRoot, pc, call, callsMade,
                   documents, batchVars, locals, exc, statusLog, dispatched,
                   llmCalls, resumed>>

\* update_metadata("r1", updates): FileNotFoundError from load_metadata when
\* there is no metadata.json
StoreUpdateMetadata ==
    /\ clock < MaxStoreOps
    /\ \E u \in MetadataUpdates :
          IF MetadataExists(store, "r1")
          THEN /\ store' = update_metadata(store, "r1", u, clock)
               /\ lastOp' = [op |-> "update_metadata", kind |-> "ok", updates |-> u]
          ELSE /\ store' = store
               /\ lastOp' = [op |-> "update_metadata", kind |-> "raise",
                             updates |-> u]
    /\ clock' = clock + 1
    /\ UNCHANGED <<qaVars, runDirs, today, newIds, rglobOrder, scanOut, filterOut,
                   lastFilter, mainArgs, mainOut, racers, backend, corpusRoot, pc, call, callsMade,
                   documents, batchVars, locals, exc, statusLog, dispatched,
                   llmCalls, resumed>>

\* save_single_qa_result("r1", i, path, result) in an existing run directory
StoreSaveSingle ==
    /\ clock < MaxStoreOps
    /\ store["r1"].exists
    /\ \E i \in SaveIndices, rel \in CorpusFiles :
          /\ store' = save_single_qa_result(store, "r1", i, BaseDir \o rel,
                                            ResultOf(rel))
          /\ lastOp' = [op |-> "save_single_qa_result", index |-> i, rel |-> rel]
    /\ clock' = clock + 1
    /\ UNCHANGED <<qaVars, runDirs, today, newIds, rglobOrder, scanOut, filterOut,
                   lastFilter, mainArgs, mainOut, racers, backend, corpusRoot, pc, call, callsMade,
                   documents, batchVars, locals, exc, statusLog, dispatched,
                   llmCalls, resumed>>

\* number of documents of a batch the model follows
MaxBatchDocs == 2

\* the document lists handed to run_single_qa_batch: documents of a scan, in
\* ascending index order, no file twice
StoreDocLists ==
    UNION {{[k \in 1..n |-> create_document_info(idx[k], fs[k], TRUE)] :
               idx \in {x \in [1..n -> SaveIndices] :
                           \A a, b \in 1..n : a < b => x[a] < x[b]},
               fs \in {y \in [1..n -> CorpusFiles] :
                          \A a, b \in 1..n : a # b => y[a] # y[b]}} :
           n \in 1..MaxBatchDocs}

\* the completion orders of n tasks (as_completed)
CompletionOrders(n) ==
    {o \in [1..n -> 1..n] : \A a, b \in 1..n : a # b => o[a] # o[b]}

\* run_single_qa: the workers' save_single_qa_result calls for the first k
\* tasks to complete
RECURSIVE SaveCompleted(_, _, _, _)
SaveCompleted(st, docs, order, k) ==
    IF k = 0 THEN st
    ELSE LET d == docs[order[k]]
         IN  save_single_qa_result(SaveCompleted(st, docs, order, k - 1), "r1",
                                   d.index, d.path, ResultOf(d.relative_path))

\* run_single_qa_batch(documents, ..., run_id="r1") in a run directory that
\* holds no result yet, no worker raising: every worker saves its result, the
\* results are appended in completion order and sorted by document index
StoreRunBatch ==
    /\ clock < MaxStoreOps
    /\ store["r1"].exists
    /\ store["r1"].json = EmptyDict
    /\ \E docs \in StoreDocLists :
          \E order \in CompletionOrders(Len(docs)) :
              LET rs == [k \in 1..Len(docs) |-> ResultOf(docs[order[k]].relative_path)]
              IN  /\ store' = SaveCompleted(store, docs, order, Len(docs))
                  /\ lastOp' = [op |-> "run_single_qa_batch", documents |-> docs,
                                returned |-> SortResults(rs, docs)]
    /\ clock' = clock + 1
    /\ UNCHANGED <<qaVars, runDirs, today, newIds, rglobOrder, scanOut, filterOut,
                   lastFilter, mainArgs, mainOut, racers, backend, corpusRoot, pc, call, callsMade,
                   documents, batchVars, locals, exc, statusLog, dispatched,
                   llmCalls, resumed>>

StoreNext ==
    \/ StoreCreateRun
    \/ StoreUpdateMetadata
    \/ StoreSaveSingle
    \/ StoreRunBatch

SpecStore == StoreInit /\ [][StoreNext]_vars

(***************************************************************************)
(* SpecRunId: create_run() without a run id, on a run base directory that  *)
(* holds any directories.  An entry of the base directory is its name and  *)
(* whether it holds a metadata.json; a name is <<date, suffix>>, standing  *)
(* for f"{date}_{suffix}", the suffix given by its decimal digits.         *)
(***************************************************************************)
\* largest sequence number of a directory present before the first call
MaxSeeded == 2
\* number of create_run() calls made
MaxAutoRuns == 2

\* f"{next_num:04d}"
Pad4(n) == LET d == Digits(n) IN IF Len(d) < 4 THEN Rep(0, 4 - Len(d)) \o d ELSE d

\* (self.base_dir / run_id).exists()
DirExists(dirs, name) == \E e \in dirs : e.name = name

\* list_runs: the directories that hold a metadata.json
list_runs(dirs) == {e.name : e \in {x \in dirs : x.meta}}

\* while (self.base_dir / run_id).exists(): next_num += 1
RECURSIVE NextFree(_, _, _)
NextFree(dirs, date, next_num) ==
    IF DirExists(dirs, <<date, Pad4(next_num)>>)
    THEN NextFree(dirs, date, next_num + 1)
    ELSE next_num

\* the id made from the count alone
generate_run_id_unchecked(dirs, date) ==
    <<date, Pad4(Cardinality({name \in list_runs(dirs) : name[1] = date}) + 1)>>

\* _generate_run_id
generate_run_id(dirs, date) ==
    LET existing_runs == {name \in list_runs(dirs) : name[1] = date}
        next_num == Cardinality(existing_runs) + 1
    IN  <<date, Pad4(NextFree(dirs, date, next_num))>>

\* create_run(): mkdir(parents, exist_ok), save_metadata
create_run_auto(dirs, date) ==
    LET run_id == generate_run_id(dirs, date)
    IN  [run_id |-> run_id,
         dirs |-> {e \in dirs : e.name # run_id}
                      \cup {[name |-> run_id, meta |-> TRUE]}]

\* the names directories may have before the first call: sequence ids of two
\* dates and a name that starts with the date and is no sequence id
SeededNames ==
    {<<d, Pad4(n)>> : d \in {"d1", "d2"}, n \in 1..MaxSeeded}
        \cup {<<"d1", <<0, 1>>>>}

\* the base directories: each name absent, a bare directory, or a run
SeededDirs ==
    {dirs \in SUBSET [name : SeededNames, meta : BOOLEAN] :
        \A e, f \in dirs : e.name = f.name => e = f}

RunIdInit ==
    /\ QAIdle
    /\ lastOp = [op |-> "none"]
    /\ runDirs \in SeededDirs
    /\ today = "d1"
    /\ newIds = <<>>
    /\ rglobOrder = <<>> /\ scanOut = <<>> /\ filterOut = <<>>
    /\ lastFilter = [op |-> "none"]
    /\ mainArgs = NoArgs
    /\ mainOut = <<>>
    /\ racers = NoRacers
    /\ backend = [f \in CorpusFiles |-> "up"]
    /\ corpusRoot = TRUE
    /\ OrchIdle

\* create_run()
RunIdCreate ==
    /\ Len(newIds) < MaxAutoRuns
    /\ LET out == create_run_auto(runDirs, today)
       IN  /\ runDirs' = out.dirs
           /\ newIds' = Append(newIds, [run_id |-> out.run_id, date |-> today])
           /\ lastOp' = [op |-> "create_run", run_id |-> out.run_id]
    /\ UNCHANGED <<qaVars, today, rglobOrder, scanOut, filterOut, lastFilter,
                   mainArgs, mainOut, racers,
                   orchVars>>

\* midnight passes
RunIdNextDay ==
    /\ today = "d1"
    /\ today' = "d2"
    /\ UNCHANGED <<qaVars, lastOp, runDirs, newIds, rglobOrder, scanOut,
                   filterOut, lastFilter, mainArgs, mainOut, racers,
                   orchVars>>

RunIdNext ==
    \/ RunIdCreate
    \/ RunIdNextDay

SpecRunId == RunIdInit /\ [][RunIdNext]_vars

(***************************************************************************)
(* SpecRace: two orchestrations call create_run() at the same time on one  *)
(* base directory.  The steps of a call are the file-system operations of  *)
(* _generate_run_id and create_run, which the code does not lock.          *)
(***************************************************************************)
\* the unchanged part of a step of SpecRace
RaceFrame ==
    UNCHANGED <<qaVars, lastOp, today, rglobOrder, scanOut, filterOut,
                lastFilter, mainArgs, mainOut, orchVars>>

\* _generate_run_id: existing_runs from list_runs(), next_num
RaceList(p) ==
    /\ racers[p].pc = "idle"
    /\ racers' = [racers EXCEPT ![p] =
          [pc |-> "listed",
           next_num |-> Cardinality({name \in list_runs(runDirs) :
                                        name[1] = today}) + 1,
           run_id |-> <<>>]]
    /\ UNCHANGED <<runDirs, newIds>>
    /\ RaceFrame

\* one test of while (self.base_dir / run_id).exists(): next_num += 1
RaceCheck(p) ==
    /\ racers[p].pc = "listed"
    /\ racers' = [racers EXCEPT ![p] =
          IF DirExists(runDirs, <<today, Pad4(racers[p].next_num)>>)
          THEN [@ EXCEPT !.next_num = @ + 1]
          ELSE [@ EXCEPT !.pc = "chosen",
                         !.run_id = <<today, Pad4(racers[p].next_num)>>]]
    /\ UNCHANGED <<runDirs, newIds>>
    /\ RaceFrame

\* run_dir.mkdir(parents=True, exist_ok=True), and single_qa under it
RaceMkdir(p) ==
    /\ racers[p].pc = "chosen"
    /\ runDirs' = IF DirExists(runDirs, racers[p].run_id) THEN runDirs
                  ELSE runDirs \cup {[name |-> racers[p].run_id, meta |-> FALSE]}
    /\ racers' = [racers EXCEPT ![p].pc = "made"]
    /\ UNCHANGED newIds
    /\ RaceFrame

\* save_metadata(run_id, metadata); return run_id
RaceSave(p) ==
    /\ racers[p].pc = "made"
    /\ runDirs' = {e \in runDirs : e.name # racers[p].run_id}
                      \cup {[name |-> racers[p].run_id, meta |-> TRUE]}
    /\ newIds' = Append(newIds, [run_id |-> racers[p].run_id, date |-> today])
    /\ racers' = [racers EXCEPT ![p].pc = "done"]
    /\ RaceFrame

RaceNext ==
    \E p \in Racers : RaceList(p) \/ RaceCheck(p) \/ RaceMkdir(p) \/ RaceSave(p)

SpecRace == RunIdInit /\ [][RaceNext]_vars

(***************************************************************************)
(* SpecIndexer: scan_documents on a corpus whose files rglob yields in any *)
(* order, then filter_by_subdir calls on the scanned list or on the list   *)
(* the last filter returned.                                               *)
(***************************************************************************)
\* number of files under the corpus root
MaxIdxFiles == 4
\* number of filter_by_subdir calls made
MaxFilters == 2

\* the sequences without repetition over a set
RECURSIVE Orders(_)
Orders(S) ==
    IF S = {} THEN {<<>>}
    ELSE UNION {{<<x>> \o o : o \in Orders(S \ {x})} : x \in S}

\* what rglob can yield on the corpora that hold some of the files
RglobOrders == UNION {Orders(S) : S \in SUBSET {AllFiles[i] : i \in 1..MaxIdxFiles}}

\* the subdirs arguments of filter_by_subdir
SubdirArgs == SUBSET {"catA", "catB", "root"}

IndexerInit ==
    /\ QAIdle
    /\ lastOp = [op |-> "none"]
    /\ runDirs = {} /\ today = "d1" /\ newIds = <<>>
    /\ rglobOrder \in RglobOrders
    /\ scanOut = <<>>
    /\ filterOut = <<>>
    /\ lastFilter = [op |-> "none"]
    /\ mainArgs = NoArgs
    /\ mainOut = <<>>
    /\ racers = NoRacers
    /\ backend = [f \in CorpusFiles |-> "up"]
    /\ corpusRoot = TRUE
    /\ OrchIdle

\* documents = indexer.scan_documents()
IndexerScan ==
    /\ lastFilter.op = "none"
    /\ scanOut' = scan_documents(rglobOrder, {})
    /\ lastFilter' = [op |-> "scan", n |-> 0]
    /\ UNCHANGED <<qaVars, lastOp, runDirs, today, newIds, rglobOrder, filterOut,
                   mainArgs, mainOut, racers,
                   orchVars>>

\* indexer.filter_by_subdir(documents, subdirs) on the scanned list or on the
\* list the last filter returned
IndexerFilter ==
    /\ lastFilter.op # "none"
    /\ lastFilter.n < MaxFilters
    /\ \E subdirs \in SubdirArgs, from \in {"scan", "filter"} :
          /\ from = "filter" => lastFilter.op = "filter"
          /\ LET docs == IF from = "scan" THEN scanOut ELSE filterOut
                 out == filter_by_subdir(docs, subdirs)
             IN  /\ filterOut' = out
                 /\ scanOut' = SeenAfterFilter(scanOut, out)
                 /\ lastFilter' = [op |-> "filter", n |-> lastFilter.n + 1,
                                   subdirs |-> subdirs, documents |-> docs]
    /\ UNCHANGED <<qaVars, lastOp, runDirs, today, newIds, rglobOrder, mainArgs, mainOut, racers,
                   orchVars>>

IndexerNext ==
    \/ IndexerScan
    \/ IndexerFilter

SpecIndexer == IndexerInit /\ [][IndexerNext]_vars

(***************************************************************************)
(* SpecScan: one scan_documents call on a corpus some of whose files       *)
(* cannot be read.                                                         *)
(***************************************************************************)
\* the files rglob yields
FilesOf(found) == {found[i] : i \in 1..Len(found)}

\* documents = indexer.scan_documents(), open() failing on the unreadable files
ScanUnreadable ==
    /\ lastFilter.op = "none"
    /\ \E unreadable \in SUBSET FilesOf(rglobOrder) :
          /\ scanOut' = scan_documents(rglobOrder, unreadable)
          /\ lastFilter' = [op |-> "scan", n |-> 0, unreadable |-> unreadable]
    /\ UNCHANGED <<qaVars, lastOp, runDirs, today, newIds, rglobOrder, filterOut,
                   mainArgs, mainOut, racers, orchVars>>

ScanNext == ScanUnreadable

SpecScan == IndexerInit /\ [][ScanNext]_vars

(***************************************************************************)
(* SpecMain: one run of the command-line entry point of aggregate_qa.py.   *)
(***************************************************************************)
\* the methods class ExecutionManager defines
ExecutionManagerMethods ==
    {"__init__", "create_run", "_generate_run_id", "get_run_dir",
     "get_single_qa_dir", "list_runs", "save_metadata", "load_metadata",
     "update_metadata", "generate_single_qa_filename", "save_single_qa_result",
     "load_single_qa_results", "save_aggregate_result", "cleanup_run",
     "get_run_summary"}

\* exec_manager.<name>: AttributeError unless the class defines the method
GetMethod(name) ==
    IF name \in ExecutionManagerMethods THEN [kind |-> "ok"]
    ELSE [kind |-> "raise",
          error |-> "ExecutionManager object has no attribute " \o name]

\* except Exception as e: print the error, sys.exit(1); also the exit taken
\* when no question is given
MainExit(error) ==
    [kind |-> "exit", code |-> 1, error |-> error, entry |-> "none", run_id |-> ""]

\* main() goes on to call an entry point
MainCalls(entry, run_id, question) ==
    [kind |-> "call", entry |-> entry, run_id |-> run_id, question |-> question]

\* question = args.question, or what input() returns, stripped
QuestionOf(args) == IF args.question # "" THEN args.question ELSE args.typed

\* main(), up to the entry point it calls; st is the run base directory
main(args, st) ==
    IF args.run_id # ""
    THEN IF GetMethod("run_exists").kind = "raise"
         THEN MainExit(GetMethod("run_exists").error)
         ELSE IF st[args.run_id].exists \/ args.aggregate_only
              THEN MainCalls("run_aggregate_only", args.run_id, "")
              ELSE IF QuestionOf(args) = ""
                   THEN MainExit("no question")
                   ELSE MainCalls("run_aggregate_qa", args.run_id, QuestionOf(args))
    ELSE IF QuestionOf(args) = ""
         THEN MainExit("no question")
         ELSE IF GetMethod("get_next_run_id").kind = "raise"
              THEN MainExit(GetMethod("get_next_run_id").error)
              ELSE MainCalls("run_aggregate_qa", "auto", QuestionOf(args))

\* the command lines
MainArgs ==
    [question : {"", "Q"}, typed : {"", "Q"}, run_id : {"", "r1"},
     aggregate_only : BOOLEAN, single_template : SingleTemplates,
     aggregate_template : AggTemplates, parallel : 1..MaxWorkers]

MainInit ==
    /\ QAIdle
    /\ lastOp = [op |-> "none"]
    /\ runDirs = {} /\ today = "d1" /\ newIds = <<>>
    /\ rglobOrder = <<>> /\ scanOut = <<>> /\ filterOut = <<>>
    /\ lastFilter = [op |-> "none"]
    /\ mainArgs \in MainArgs
    /\ mainOut = <<>>
    /\ racers = NoRacers
    /\ backend = [f \in CorpusFiles |-> "up"]
    /\ corpusRoot = TRUE
    /\ pc = "idle" /\ call = NoCall /\ callsMade = 0 /\ documents = <<>>
    /\ submitted = 0 /\ nThreads = 0 /\ task = <<>> /\ taskOut = <<>>
    /\ results = <<>> /\ locals = NoLocals /\ exc = <<>> /\ statusLog = <<>>
    /\ dispatched = 0 /\ llmCalls = 0 /\ resumed = 0
    /\ clock = 1
    /\ store \in {[r \in RunIds |-> NoDir], create_run([r \in RunIds |-> NoDir], "r1", 0)}

\* python aggregate_qa.py ...
MainRun ==
    /\ mainOut = <<>>
    /\ mainOut' = <<main(mainArgs, store)>>
    /\ UNCHANGED <<qaVars, lastOp, runDirs, today, newIds, rglobOrder, scanOut,
                   filterOut, lastFilter, mainArgs, racers, orchVars>>

MainNext == MainRun

SpecMain == MainInit /\ [][MainNext]_vars

(***************************************************************************)
(* Properties of single_document_qa, checked under SpecQA.                 *)
(***************************************************************************)
QADone == qaOut # <<>>
QAInputsFine == qaDoc = "readable" /\ qaTemplate \in SingleTemplates
NeverRaises(script) == \A k \in 1..MaxRetries : script[k].kind = "text"
LongEnough(b) == b.kind = "text" /\ Len(Strip(b.text)) >= MinAnswerLen

\* the first attempt whose stripped answer has MinAnswerLen characters;
\* MaxRetries + 1 when there is none
FirstLongEnough(script) ==
    IF \E k \in 1..MaxRetries : LongEnough(script[k])
    THEN CHOOSE k \in 1..MaxRetries :
             /\ LongEnough(script[k])
             /\ \A j \in 1..(k - 1) : ~LongEnough(script[j])
    ELSE MaxRetries + 1

\* C3: when the backend never raises, single_document_qa makes min(3, k)
\* backend calls, k being the first attempt whose stripped answer has at least
\* 10 characters; it returns that answer, and when all 3 answers are too short
\* it returns the last one as a normal result.
C3_CallsUntilFirstAcceptable ==
    (QADone /\ QAInputsFine /\ NeverRaises(qaScript)) =>
        LET k == FirstLongEnough(qaScript)
            out == qaOut[1]
        IN  /\ out.kind = "ok"
            /\ out.calls = IF k < 3 THEN k ELSE 3
            /\ k <= 3 => out.result.answer = Strip(qaScript[k].text)
            /\ k > 3 => out.result.answer = Strip(qaScript[3].text)

\* every answer was too short, one of them not empty: three calls were made
C3_Witness ==
    /\ QADone /\ QAInputsFine /\ NeverRaises(qaScript)
    /\ FirstLongEnough(qaScript) > MaxRetries
    /\ qaOut[1].kind = "ok"
    /\ qaOut[1].calls = 3
    /\ Len(qaOut[1].result.answer) = MinAnswerLen - 1

HasErrorFlag(result) == "error_flag" \in DOMAIN result /\ result.error_flag = TRUE

\* C4: a result returned after all retries were exhausted carries an error
\* indicator, and a result without the indicator has an answer of at least 10
\* characters.
C4_ErrorFlagOnExhaustion ==
    (QADone /\ qaOut[1].kind = "ok") =>
        /\ (NeverRaises(qaScript) /\ FirstLongEnough(qaScript) > MaxRetries)
               => HasErrorFlag(qaOut[1].result)
        /\ ~HasErrorFlag(qaOut[1].result)
               => Len(Strip(qaOut[1].result.answer)) >= MinAnswerLen

\* C5: a backend call that fails with a connectivity error or a malformed
\* response is retried: when the first call fails so and the second answers
\* acceptably, single_document_qa returns a successful result after 2 calls.
C5_RetriesAfterBackendError ==
    (/\ QADone /\ QAInputsFine
     /\ qaScript[1] \in {ConnectionError, Malformed}
     /\ LongEnough(qaScript[2]))
        => /\ qaOut[1].kind = "ok"
           /\ qaOut[1].calls = 2
           /\ qaOut[1].result.answer = Strip(qaScript[2].text)

(***************************************************************************)
(* Properties of the map phase, checked under Spec.                        *)
(***************************************************************************)
\* run_single_qa_batch has returned its list to the orchestrator
BatchReturned == call.kind = "qa" /\ pc \in {"reduce", "finalize", "returned"}
\* run_single_qa_batch has raised a worker's exception to the orchestrator
BatchRaised ==
    /\ call.kind = "qa"
    /\ pc \in {"except", "raised"}
    /\ exc # <<>>
    /\ exc[1].phase = "map"
BatchOver == BatchReturned \/ BatchRaised

\* the list is the documents' results in index order
InIndexOrder(rs) ==
    /\ Len(rs) = Len(documents)
    /\ \A i \in 1..Len(documents) :
          /\ documents[i].index = i - 1
          /\ rs[i].document_path = documents[i].path

\* C1: for every document list and every completion order,
\* run_single_qa_batch returns a list of len(D) results whose i-th element is
\* the result for the document with index i.
C1_ResultsInIndexOrder ==
    BatchOver => (BatchReturned /\ InIndexOrder(locals.single_results))

\* what holds of the code: a list that is returned is in index order
BatchOrderedWhenReturned ==
    BatchReturned => InIndexOrder(locals.single_results)

\* a worker raised for the document at position p
WorkerRaised(p) == task[p] = "failed"

\* C2: a worker-level exception never aborts the map phase: the batch does
\* not raise, and for a document whose worker raised the returned list holds
\* a synthetic error result, so that there is one result per document.
C2_WorkerErrorIsolated ==
    /\ ~BatchRaised
    /\ (BatchReturned /\ \E p \in Positions : WorkerRaised(p))
           => /\ Len(locals.single_results) = Len(documents)
              /\ \A p \in Positions :
                    WorkerRaised(p) => HasErrorFlag(locals.single_results[p])

\* C6: at most max_workers QA worker invocations execute at the same time.
C6_AtMostMaxWorkers ==
    Cardinality({p \in Positions : task[p] \in {"running", "answered"}})
        <= call.parallel

\* two workers are executing while a third task waits in the queue
C6_Witness ==
    /\ call.parallel = 2
    /\ Cardinality({p \in Positions : task[p] \in {"running", "answered"}}) = 2
    /\ \E p \in Positions : task[p] = "queued"

(***************************************************************************)
(* Properties of run_aggregate_only, checked under Spec.                   *)
(***************************************************************************)
\* this step is one call of run_aggregate_only
ResumeStep == callsMade' = callsMade + 1 /\ call'.kind = "agg"

\* the documents of the persisted map results of run r
PersistedDocs(st, r) ==
    {<<ParentName(st[r].json[n].document_path),
       Stem(st[r].json[n].document_path[Len(st[r].json[n].document_path)])>> :
        n \in DOMAIN st[r].json}

\* C7: run_aggregate_only dispatches no QA worker and leaves every persisted
\* per-document map result, .json and .txt, unchanged; the aggregate result it
\* writes lists all N persisted documents.
C7_ResumeKeepsMapResults ==
    [][ResumeStep =>
          /\ dispatched' = dispatched
          /\ \A p \in DOMAIN task' : task'[p] \notin {"queued", "running", "answered"}
          /\ \A r \in RunIds : /\ store'[r].json = store[r].json
                               /\ store'[r].txt = store[r].txt
          /\ pc' = "returned" =>
                LET a == store'[call'.run_id].aggregate[1]
                    n == Cardinality(DOMAIN store[call'.run_id].json)
                IN  /\ a.n_docs = n
                    /\ Len(a.doc_lines) = n
                    /\ {<<a.doc_lines[i][2], a.doc_lines[i][3]>> : i \in 1..n}
                           = PersistedDocs(store, call'.run_id)]_vars

\* a second resume has returned on a run with two or more persisted results
C7_Witness ==
    /\ call.kind = "agg" /\ pc = "returned"
    /\ resumed >= 2
    /\ Cardinality(DOMAIN store[call.run_id].json) >= 2
    /\ Len(store[call.run_id].aggregate[1].doc_lines) >= 2

\* the aggregate metadata of run r, absent fields read as "none"
AggregateFields(st, r) ==
    IF st[r].meta = <<>> THEN <<>>
    ELSE <<DictGet(st[r].meta[1], "aggregate_template", "none"),
           DictGet(st[r].meta[1], "aggregate_time", "none"),
           DictGet(st[r].meta[1], "aggregate_tokens", "none")>>

\* C8: after a successful run_aggregate_only the run holds exactly one
\* aggregate result, the one this invocation wrote, and the aggregate metadata
\* is this invocation's; an invocation that fails leaves both as they were.
C8_ResumeOverwrites ==
    [][ResumeStep =>
          LET r == call'.run_id
              b == locals'.agg[1]
          IN  IF pc' = "returned"
              THEN /\ Len(store'[r].aggregate) = 1
                   /\ store'[r].aggregate[1].written_at = clock
                   /\ store'[r].aggregate[1].aggregate_template
                          = call'.aggregate_template
                   /\ store'[r].aggregate[1].answer = Strip(b.text)
                   /\ AggregateFields(store', r)
                          = <<call'.aggregate_template, b.secs, b.tokens>>
              ELSE /\ store'[r].aggregate = store[r].aggregate
                   /\ AggregateFields(store', r) = AggregateFields(store, r)]_vars

\* a second resume has returned, with the other template and the other answer
C8_Witness ==
    /\ call.kind = "agg" /\ pc = "returned"
    /\ resumed >= 2
    /\ store[call.run_id].aggregate[1].aggregate_template = "consensus"
    /\ store[call.run_id].aggregate[1].answer = <<"B">>
    /\ AggregateFields(store, call.run_id) = <<"consensus", 2, 7>>

(***************************************************************************)
(* Properties of the run status, checked under Spec.                       *)
(***************************************************************************)
Status(r) == store[r].meta[1].status

\* run_aggregate_qa has re-raised an error to its caller
RaisedToCaller == call.kind = "qa" /\ pc = "raised"

\* C9: when a phase of run_aggregate_qa fails, the status persisted at the
\* moment the error is re-raised to the caller is the tag of the failing
\* phase: setup_failed, single_qa_failed, finalization_failed, and for the
\* reduce phase a status no other phase leaves.
C9_PhaseTagAtRaise ==
    RaisedToCaller =>
        CASE exc[1].phase = "setup" -> Status(call.run_id) = "setup_failed"
          [] exc[1].phase = "map" -> Status(call.run_id) = "single_qa_failed"
          [] exc[1].phase = "finalize" -> Status(call.run_id) = "finalization_failed"
          [] OTHER -> Status(call.run_id) \notin
                          {"created", "running", "completed", "setup_failed",
                           "single_qa_failed", "finalization_failed"}

TerminalStatuses ==
    {"completed", "failed", "setup_failed", "single_qa_failed", "finalization_failed"}

\* C10: within one run_aggregate_qa call, once a terminal status has been
\* written no later write changes the status.
C10_OneTerminalStatus ==
    \A i, j \in 1..Len(statusLog) :
        (i < j /\ statusLog[i] \in TerminalStatuses) => statusLog[j] = statusLog[i]

\* created < running < completed or a failure status
StatusRank(s) == CASE s = "created" -> 0 [] s = "running" -> 1 [] OTHER -> 2

\* C11: within one run_aggregate_qa call on a fresh run id the statuses written
\* to metadata are monotonic in the order created < running < {completed or a
\* failure status}: after running or a terminal status neither created nor
\* running is written again, and completed is written only after running.
C11_StatusMonotonic ==
    (call.kind = "qa" /\ statusLog # <<>>) =>
        /\ Status(call.run_id) = statusLog[Len(statusLog)]
        /\ \A i, j \in 1..Len(statusLog) :
              i < j => \/ StatusRank(statusLog[i]) < StatusRank(statusLog[j])
                       \/ /\ StatusRank(statusLog[i]) = 2
                          /\ StatusRank(statusLog[j]) = 2
        /\ \A j \in 1..Len(statusLog) :
              statusLog[j] = "completed" =>
                  \E i \in 1..(j - 1) : statusLog[i] = "running"

\* a call has written created, running and completed and returned
C11_Witness ==
    /\ call.kind = "qa" /\ pc = "returned"
    /\ statusLog = <<"created", "running", "completed">>
    /\ Status(call.run_id) = "completed"

\* C12: when the corpus root does not exist, setup fails fast: no document
\* list is produced, the status is setup_failed, the error is raised to the
\* caller, no QA worker is dispatched and no backend call is made.
C12_SetupFailsFast ==
    (call.kind = "qa" /\ ~corpusRoot /\ pc # "setup") =>
        /\ pc = "raised"
        /\ exc # <<>> /\ exc[1].phase = "setup"
        /\ Status(call.run_id) = "setup_failed"
        /\ documents = <<>> /\ task = <<>>
        /\ \A p \in DOMAIN task : task[p] = "new"
        /\ dispatched = 0
        /\ llmCalls = 0
        /\ store[call.run_id].json = EmptyDict
        /\ store[call.run_id].aggregate = <<>>

\* run_aggregate_qa has raised from setup on a missing corpus root
C12_Witness ==
    /\ call.kind = "qa" /\ ~corpusRoot /\ pc = "raised"
    /\ Status(call.run_id) = "setup_failed"
    /\ exc[1].phase = "setup"

\* every per-document result of st is present and unchanged in st2
MapResultsKept(st, st2) ==
    \A r \in RunIds : \A n \in DOMAIN st[r].json :
        /\ n \in DOMAIN st2[r].json
        /\ st2[r].json[n] = st[r].json[n]
        /\ n \in DOMAIN st2[r].txt
        /\ st2[r].txt[n] = st[r].txt[n]

\* run_aggregate_qa has raised to its caller from the map or the reduce phase
FailedInMapOrReduce ==
    /\ call.kind = "qa" /\ pc = "raised"
    /\ exc[1].phase \in {"map", "reduce"}

\* C13: no step of run_aggregate_qa, its failure handling included, removes or
\* changes a persisted per-document result; and after run_aggregate_qa failed
\* in the map or the reduce phase, a run_aggregate_only on that run id with an
\* existing template and a working backend returns and writes an aggregate
\* result over exactly the persisted results.
C13_ResumeAfterFailure ==
    [][/\ MapResultsKept(store, store')
       /\ (/\ FailedInMapOrReduce
           /\ ResumeStep
           /\ call'.run_id = call.run_id
           /\ call'.aggregate_template \in AggTemplates
           /\ locals'.agg[1].kind = "text")
              => LET r == call.run_id
                 IN  /\ pc' = "returned"
                     /\ Len(store'[r].aggregate) = 1
                     /\ store'[r].aggregate[1].written_at = clock
                     /\ store'[r].aggregate[1].answer = Strip(locals'.agg[1].text)
                     /\ store'[r].aggregate[1].n_docs
                            = Cardinality(DOMAIN store[r].json)
                     /\ {<<store'[r].aggregate[1].doc_lines[i][2],
                           store'[r].aggregate[1].doc_lines[i][3]>> :
                            i \in 1..Len(store'[r].aggregate[1].doc_lines)}
                            = PersistedDocs(store, r)]_vars

\* a resume has returned on a run whose map phase failed after it persisted
\* the results of some but not all documents
C13_Witness ==
    /\ call.kind = "agg" /\ pc = "returned"
    /\ Status(call.run_id) = "failed"
    /\ Cardinality(DOMAIN store[call.run_id].json) >= 1
    /\ Cardinality(DOMAIN store[call.run_id].json)
           < Len(store[call.run_id].meta[1].documents)
    /\ store[call.run_id].aggregate # <<>>
    /\ store[call.run_id].aggregate[1].n_docs
           = Cardinality(DOMAIN store[call.run_id].json)

\* this step runs a reduce phase: Phase 3 of run_aggregate_qa, or a
\* run_aggregate_only that found the run's metadata and question
ReduceStep ==
    \/ call.kind = "qa" /\ pc = "reduce" /\ pc' # "reduce"
    \/ /\ ResumeStep
       /\ MetadataExists(store, call'.run_id)
       /\ "question" \in DOMAIN load_metadata(store, call'.run_id).parameters

\* C19: a reduce phase calls the backend exactly once, whatever the call
\* answers or raises (no call is made when the aggregate template is missing);
\* when the reduce phase raises, the error goes to the caller and this
\* invocation writes no aggregate result.
C19_ReduceCallsBackendOnce ==
    [][/\ ReduceStep =>
             /\ llmCalls' = llmCalls
                    + (IF call'.aggregate_template \in AggTemplates THEN 1 ELSE 0)
             /\ pc' \in {"finalize", "returned", "except", "raised"}
             /\ pc' \in {"except", "raised"} =>
                    /\ exc' # <<>>
                    /\ store'[call'.run_id].aggregate = store[call'.run_id].aggregate
       /\ (call.kind = "qa" /\ pc = "except" /\ exc[1].phase = "reduce") =>
             /\ pc' = "raised"
             /\ exc' = exc
             /\ llmCalls' = llmCalls
             /\ store'[call.run_id].aggregate = <<>>]_vars

\* run_aggregate_qa has raised after the backend refused the one call of its
\* reduce phase: one call per document and one more were made
C19_Witness ==
    /\ call.kind = "qa" /\ pc = "raised"
    /\ exc[1] = [phase |-> "reduce", error |-> "cannot connect to Ollama"]
    /\ Len(documents) >= 2
    /\ llmCalls = Len(documents) + 1
    /\ store[call.run_id].aggregate = <<>>

\* C20: run_aggregate_only on a run id without metadata raises the not-found
\* error of load_metadata before any backend call or worker, and changes no
\* persisted state: it creates neither a run directory nor an aggregate
\* result.
C20_ResumeOfMissingRun ==
    [][(ResumeStep /\ ~MetadataExists(store, call'.run_id)) =>
          /\ pc' = "raised"
          /\ exc' = <<[phase |-> "resume", error |-> "Metadata not found"]>>
          /\ store' = store
          /\ llmCalls' = llmCalls
          /\ dispatched' = dispatched]_vars

\* a resume of a run id that names no directory has raised
C20_Witness ==
    /\ call.kind = "agg" /\ pc = "raised"
    /\ exc = <<[phase |-> "resume", error |-> "Metadata not found"]>>
    /\ ~store[call.run_id].exists
    /\ store[call.run_id] = NoDir
    /\ llmCalls = 0

(***************************************************************************)
(* Properties of the run store, checked under SpecStore.                   *)
(***************************************************************************)
\* this step is an update_metadata call that returned
UpdateStep ==
    /\ clock' = clock + 1
    /\ lastOp'.op = "update_metadata"
    /\ lastOp'.kind = "ok"

\* C14: update_metadata merges: a stored field that is not a key of updates
\* keeps its value, a key of updates has its new value, and updated_at is
\* refreshed to the time of the call (also when updates carries updated_at).
C14_UpdateMerges ==
    [][UpdateStep =>
          LET old == store["r1"].meta[1]
              new == store'["r1"].meta[1]
              updates == lastOp'.updates
          IN  /\ Len(store'["r1"].meta) = 1
              /\ DOMAIN new = DOMAIN old \cup DOMAIN updates \cup {"updated_at"}
              /\ \A k \in DOMAIN old \ (DOMAIN updates \cup {"updated_at"}) :
                    new[k] = old[k]
              /\ \A k \in DOMAIN updates \ {"updated_at"} : new[k] = updates[k]
              /\ new["updated_at"] = clock
              /\ store' = [store EXCEPT !["r1"].meta = store'["r1"].meta]]_vars

\* an update of two keys has returned on metadata that has other fields, one
\* of them written by an earlier update
C14_Witness ==
    /\ lastOp.op = "update_metadata" /\ lastOp.kind = "ok"
    /\ lastOp.updates = [aggregate_template |-> "focused", aggregate_tokens |-> 5]
    /\ store["r1"].meta[1].status = "running"
    /\ store["r1"].meta[1].aggregate_tokens = 5
    /\ store["r1"].meta[1].created_at = 0
    /\ store["r1"].meta[1].updated_at = 2

\* the number a digit list stands for
RECURSIVE NumberOf(_)
NumberOf(d) ==
    IF d = <<>> THEN 0 ELSE 10 * NumberOf(SubSeq(d, 1, Len(d) - 1)) + d[Len(d)]

\* the document index a result file was saved under
IndexOfFile(name) == NumberOf(name[1])

\* the document indices of the results load_single_qa_results returns, in the
\* order it returns them
LoadedIndices(st, r) ==
    LET names == SortedNames(DOMAIN st[r].json)
    IN  [i \in 1..Len(names) |-> IndexOfFile(names[i])]

\* C17: load_single_qa_results returns the persisted results in ascending
\* document-index order, also when indices exceed the 3-digit zero padding of
\* the file name.
C17_LoadedInIndexOrder ==
    store["r1"].exists =>
        LET loaded == load_single_qa_results(store, "r1")
            names == SortedNames(DOMAIN store["r1"].json)
            idx == LoadedIndices(store, "r1")
        IN  /\ Len(loaded) = Cardinality(DOMAIN store["r1"].json)
            /\ \A i \in 1..Len(loaded) : loaded[i] = store["r1"].json[names[i]]
            /\ \A i, j \in 1..Len(idx) : i < j => idx[i] <= idx[j]

\* C18: per-document results are keyed by (run_id, document_index): the store
\* holds at most one result per document index, a save for index i replacing
\* an earlier one also when the document differs, so load_single_qa_results
\* never returns two results for one index; the result held for the index
\* last saved is the one last saved.
C18_OneResultPerIndex ==
    store["r1"].exists =>
        LET idx == LoadedIndices(store, "r1")
        IN  /\ \A i, j \in 1..Len(idx) : i # j => idx[i] # idx[j]
            /\ lastOp.op = "save_single_qa_result" =>
                  \A n \in DOMAIN store["r1"].json :
                      IndexOfFile(n) = lastOp.index =>
                          store["r1"].json[n] = ResultOf(lastOp.rel)

(***************************************************************************)
(* Properties of run-id generation, checked under SpecRunId.               *)
(***************************************************************************)
\* this step is a create_run() call
AutoCreateStep == Len(newIds') = Len(newIds) + 1

\* C15: the id create_run() returns has the form <today>_<4 digits>, names no
\* directory that existed before the call, with or without a metadata file,
\* and differs from every id returned before; the call creates the run.
C15_RunIdNeverCollides ==
    [][AutoCreateStep =>
          LET run_id == newIds'[Len(newIds')].run_id
          IN  /\ run_id[1] = today
              /\ Len(run_id[2]) = 4
              /\ \A i \in 1..4 : run_id[2][i] \in 0..9
              /\ ~DirExists(runDirs, run_id)
              /\ \A i \in 1..Len(newIds) : newIds[i].run_id # run_id
              /\ [name |-> run_id, meta |-> TRUE] \in runDirs'
              /\ \A e \in runDirs : e \in runDirs']_vars

\* two calls on the same date, the base directory holding a directory without
\* metadata that is named like the first sequence id: the ids are 0002, 0003
C15_Witness ==
    /\ Len(newIds) = 2
    /\ newIds[1] = [run_id |-> <<"d1", <<0, 0, 0, 2>>>>, date |-> "d1"]
    /\ newIds[2] = [run_id |-> <<"d1", <<0, 0, 0, 3>>>>, date |-> "d1"]
    /\ [name |-> <<"d1", <<0, 0, 0, 1>>>>, meta |-> FALSE] \in runDirs

(***************************************************************************)
(* Properties of the document indexer, checked under SpecIndexer.          *)
(***************************************************************************)
\* indices 0..len-1 in list order, and ascending relative paths
IndexedAndSorted(docs) ==
    /\ \A i \in 1..Len(docs) : docs[i].index = i - 1
    /\ \A i, j \in 1..Len(docs) :
          i < j => RelPathRank(docs[i].relative_path)
                       < RelPathRank(docs[j].relative_path)

\* the position of the document with relative path rel in docs
PositionIn(docs, rel) == CHOOSE i \in 1..Len(docs) : docs[i].relative_path = rel

\* out holds exactly the documents of docs whose category is in subdirs, in
\* the order they have in docs, nothing but the index changed
KeepsCategories(docs, subdirs, out) ==
    /\ {out[j].relative_path : j \in 1..Len(out)}
           = {docs[i].relative_path :
                 i \in {k \in 1..Len(docs) : docs[k].subdir \in subdirs}}
    /\ Len(out) = Cardinality({k \in 1..Len(docs) : docs[k].subdir \in subdirs})
    /\ \A i, j \in 1..Len(out) :
          i < j => PositionIn(docs, out[i].relative_path)
                       < PositionIn(docs, out[j].relative_path)
    /\ \A j \in 1..Len(out) :
          [out[j] EXCEPT !.index = 0]
              = [docs[PositionIn(docs, out[j].relative_path)] EXCEPT !.index = 0]

\* C16: the list scan_documents returns, and the list returned by any
\* sequence of filter_by_subdir calls applied to its output, has the indices
\* 0..len-1 in list order and is ordered by relative path; the scan lists every
\* file found, and a filter keeps exactly the documents whose category is in
\* the requested set, in their previous order.
C16_IndicesContiguous ==
    /\ lastFilter.op = "scan" =>
          /\ IndexedAndSorted(scanOut)
          /\ Len(scanOut) = Len(rglobOrder)
          /\ {scanOut[i].relative_path : i \in 1..Len(scanOut)}
                 = {rglobOrder[i] : i \in 1..Len(rglobOrder)}
    /\ lastFilter.op = "filter" =>
          /\ IndexedAndSorted(filterOut)
          /\ KeepsCategories(lastFilter.documents, lastFilter.subdirs, filterOut)

\* a second filter returned two documents that the scan had numbered 2 and 3
C16_Witness ==
    /\ lastFilter.op = "filter" /\ lastFilter.n = 2
    /\ Len(rglobOrder) = 4
    /\ rglobOrder[1] = <<"d.txt">>
    /\ Len(filterOut) = 2
    /\ filterOut[1].relative_path = <<"catB", "c.txt">> /\ filterOut[1].index = 0
    /\ filterOut[2].relative_path = <<"d.txt">> /\ filterOut[2].index = 1

(***************************************************************************)
(* Properties of the map phase and of the phase order, checked under Spec. *)
(***************************************************************************)
\* the result is in the run directory in both representations, under the file
\* name of the document it answers
PersistedResult(st, run_id, docs, result) ==
    \E p \in 1..Len(docs) :
        LET name == generate_single_qa_filename(docs[p].index, docs[p].path)
        IN  /\ docs[p].path = result.document_path
            /\ name \in DOMAIN st[run_id].json
            /\ st[run_id].json[name] = result
            /\ name \in DOMAIN st[run_id].txt
            /\ st[run_id].txt[name] = ResultText(result)

\* C22: persist before collect: when the scheduler appends a result to its
\* collected list, the worker has already written that result to the run
\* directory, as JSON and as text; so every collected result is persisted.
C22_PersistBeforeCollect ==
    [][/\ Len(results') = Len(results) + 1 =>
            PersistedResult(store, call.run_id, documents, results'[Len(results')])
       /\ \A i \in 1..Len(results') :
            PersistedResult(store', call'.run_id, documents', results'[i])]_vars

\* a result is collected while another worker is still running
C22_Witness ==
    /\ pc = "collect" /\ Len(results) >= 1 /\ Running # {}
    /\ PersistedResult(store, call.run_id, documents, results[1])

\* C23: phase order of run_aggregate_qa: the reduce phase calls the backend
\* only after every map task has finished; the aggregate result is written
\* only after the reduce call has returned; the status becomes completed only
\* after the aggregate result is saved.
C23_PhaseOrder ==
    [][/\ (call.kind = "qa" /\ pc = "reduce" /\ pc' # "reduce") =>
             /\ Finished = Positions
             /\ dispatched' = dispatched
             /\ \A p \in Positions : task[p] = "collected"
       /\ (call.kind = "qa" /\ call' = call /\ llmCalls' > llmCalls
                /\ task' = task) =>
             \A p \in Positions : task[p] = "collected"
       /\ (call.kind = "qa" /\ call' = call
                /\ store'[call.run_id].aggregate # store[call.run_id].aggregate) =>
             /\ pc = "finalize"
             /\ locals.agg # <<>> /\ locals.agg[1].kind = "ok"
       /\ \A r \in RunIds :
             (/\ MetadataExists(store', r)
              /\ load_metadata(store', r).status = "completed") =>
                 store'[r].aggregate # <<>>]_vars

\* a run over two or more documents is completed: every task was collected
\* before the reduce phase, and the aggregate result is saved
C23_Witness ==
    /\ call.kind = "qa" /\ pc = "returned"
    /\ Len(documents) >= 2
    /\ \A p \in Positions : task[p] = "collected"
    /\ locals.agg # <<>>
    /\ store[call.run_id].aggregate # <<>>
    /\ Status(call.run_id) = "completed"

\* the blocks are the results, one block each, in the order of the list
BlocksMatch(blocks, rs) ==
    /\ Len(blocks) = Len(rs)
    /\ \A i \in 1..Len(rs) :
          /\ blocks[i].number = i
          /\ blocks[i].answer = rs[i].answer
          /\ blocks[i].filename = Stem(rs[i].document_path[Len(rs[i].document_path)])

\* C24: the reduce prompt holds exactly one delimited block per input result,
\* in the order of the input list, each with the full answer text of its
\* result; no result is omitted, duplicated or moved.
C24_PromptHasEveryResult ==
    /\ (call.kind = "qa" /\ pc \in {"finalize", "returned"} /\ locals.agg # <<>>) =>
          BlocksMatch(locals.agg[1].prompt.document_answers, locals.single_results)
    /\ (call.kind = "qa" /\ pc \in {"finalize", "returned", "except", "raised"}
            /\ store[call.run_id].answers # <<>>) =>
          BlocksMatch(store[call.run_id].answers[1], locals.single_results)

\* a reduce prompt over two results with different answers
C24_Witness ==
    /\ call.kind = "qa" /\ pc = "finalize" /\ locals.agg # <<>>
    /\ Len(locals.single_results) >= 2
    /\ Len(locals.agg[1].prompt.document_answers) >= 2
    /\ locals.agg[1].prompt.document_answers[1].answer
           # locals.agg[1].prompt.document_answers[2].answer

\* the category the indexer gave the document at this path
CategoryOf(docs, path) ==
    docs[CHOOSE i \in 1..Len(docs) : docs[i].path = path].subdir

\* C25: the category label of every block of the reduce prompt is the
\* indexer's category of the document: the name of its parent directory
\* relative to the corpus root, or "root" for a document directly under it.
C25_PromptLabelIsCategory ==
    (call.kind = "qa" /\ pc \in {"finalize", "returned"} /\ locals.agg # <<>>) =>
        \A i \in 1..Len(locals.single_results) :
            locals.agg[1].prompt.document_answers[i].subdir
                = CategoryOf(documents, locals.single_results[i].document_path)

\* the file name under which the worker of the document at position p saves
FileOf(p) == generate_single_qa_filename(documents[p].index, documents[p].path)

\* the files of the dictionary other than name are in both states, unchanged
OthersUntouched(before, after, name) ==
    \A n \in (DOMAIN before \cup DOMAIN after) \ {name} :
        n \in DOMAIN before /\ n \in DOMAIN after /\ after[n] = before[n]

\* C26: concurrent map workers write disjoint files: the documents of a batch
\* have pairwise different result file names, and a worker's save writes the
\* two files of its own document and changes nothing else in the run
\* directory.
C26_WorkersWriteDisjointFiles ==
    [][\A p \in Positions :
          (task[p] = "answered" /\ task'[p] = "done") =>
              /\ \A q \in Positions \ {p} : FileOf(q) # FileOf(p)
              /\ FileOf(p) \in DOMAIN store'[call.run_id].json
              /\ FileOf(p) \in DOMAIN store'[call.run_id].txt
              /\ OthersUntouched(store[call.run_id].json,
                                 store'[call.run_id].json, FileOf(p))
              /\ OthersUntouched(store[call.run_id].txt,
                                 store'[call.run_id].txt, FileOf(p))
              /\ store'[call.run_id].meta = store[call.run_id].meta
              /\ store'[call.run_id].aggregate = store[call.run_id].aggregate]_vars

\* two workers are about to save at the same time, and a third document's
\* files are already in the run directory
C26_Witness ==
    /\ Len(documents) >= 3
    /\ \E p, q, d \in Positions :
          /\ p # q /\ task[p] = "answered" /\ task[q] = "answered"
          /\ task[d] \in {"done", "collected"}
          /\ FileOf(d) \in DOMAIN store[call.run_id].json

\* the step writes metadata.json of some run
MetadataStep == \E r \in RunIds : store'[r].meta # store[r].meta

\* the step is a map worker's: a task starts, answers, fails or saves
WorkerStep ==
    \E p \in Positions :
        /\ task[p] \in {"queued", "running", "answered"}
        /\ task'[p] # task[p]

\* C27: update_metadata is never executed by a map worker, nor while a worker
\* is running: every write of the metadata happens before the first task is
\* dispatched or after the last worker has finished.
C27_MetadataOnlyOutsideMap ==
    [][/\ WorkerStep => ~MetadataStep
       /\ MetadataStep =>
             /\ Running = {}
             /\ \/ \A p \in Positions : task[p] = "new"
                \/ Finished = Positions]_vars

\* single_qa_failed is recorded after a worker failed, and a worker that was
\* still busy at that moment has finished before the record was written
C27_Witness ==
    /\ call.kind = "qa" /\ pc = "except"
    /\ Status(call.run_id) = "single_qa_failed"
    /\ \E p, q \in Positions : task[p] = "failed" /\ task[q] = "done"

\* the task at position p was submitted and its worker has not finished it
Pending(p) == p \in DOMAIN task /\ task[p] \in {"queued", "running", "answered"}

\* the worker of the task at position p ran it to its end
Completed(p) == p \in DOMAIN task /\ task[p] \in {"done", "failed", "collected"}

\* C28: no cancellation: every task handed to the executor eventually runs to
\* completion, also a task that is queued or running when another task's
\* exception is collected; and the batch neither returns nor lets the
\* exception out before every task has finished.
C28_NoCancellation ==
    /\ \A p \in 1..MaxDocs : Pending(p) ~> Completed(p)
    /\ [][/\ (pc \in {"collect", "drain"} /\ pc' \notin {"collect", "drain"}) =>
                 /\ Finished = Positions
                 /\ dispatched' = dispatched
           /\ \A p \in Positions :
                 (Pending(p) /\ call' = call) => (Pending(p)' \/ Completed(p)')]_vars

\* a task's exception has been collected while another task is still queued
C28_Witness ==
    /\ pc = "drain"
    /\ \E p, q \in Positions : task[p] = "failed" /\ task[q] = "queued"

\* C29: exactly one worker task exists per document: the tasks are submitted
\* one at a time in ascending index order, none is skipped and none is
\* submitted or started twice; the order in which they complete is free.
C29_OneTaskPerDocument ==
    [][/\ \A p \in DOMAIN task' :
             /\ task'[p] # "new" <=> p <= submitted'
             /\ documents'[p].index = p - 1
       /\ Len(task') = Len(documents')
       /\ (call' = call /\ submitted' # submitted) =>
             /\ submitted' = submitted + 1
             /\ task[submitted'] = "new" /\ task'[submitted'] = "queued"
             /\ \A p \in Positions \ {submitted'} : task'[p] = task[p]
       /\ \A p \in Positions :
             (call' = call /\ task[p] # "new" /\ task'[p] # task[p]) =>
                 /\ task'[p] \notin {"new", "queued"}
                 /\ task[p] # "queued" => task'[p] # "running"
       /\ (pc \in {"collect", "drain"} /\ pc' \notin {"collect", "drain"}) =>
             /\ submitted = Len(documents)
             /\ dispatched = Len(documents)]_vars

\* the task of a later document has finished while the task of the first
\* document is still running
C29_Witness ==
    /\ submitted = Len(documents) /\ Len(documents) >= 2
    /\ task[1] = "running"
    /\ \E p \in Positions : p > 1 /\ task[p] \in {"done", "failed"}

(***************************************************************************)
(* Property of the document records, checked under SpecIndexer.            *)
(***************************************************************************)
\* C30: document records are never changed after their creation:
\* filter_by_subdir leaves the index of the records of its input as it was,
\* so the list scan_documents returned still carries the indices 0..N-1, and
\* is what the scan returned, after it has been passed to a filter.
C30_FilterLeavesInputRecords ==
    lastFilter.op = "filter" =>
        /\ \A i \in 1..Len(scanOut) : scanOut[i].index = i - 1
        /\ scanOut = scan_documents(rglobOrder, {})

(***************************************************************************)
(* Properties of the command-line entry point, checked under SpecMain.     *)
(***************************************************************************)
\* C21: the entry point selects its mode as documented: with a question and no
\* run id it starts a new run under an auto-generated id; with a run id that
\* does not exist it starts a new run under that id; with a run id that exists,
\* or with --aggregate-only, it runs reduce-only against that run.
C21_MainSelectsMode ==
    mainOut # <<>> =>
        LET a == mainArgs
            o == mainOut[1]
        IN  /\ (a.run_id = "" /\ QuestionOf(a) # "") =>
                  /\ o.kind = "call" /\ o.entry = "run_aggregate_qa"
                  /\ o.run_id # "" /\ o.question = QuestionOf(a)
            /\ (/\ a.run_id # "" /\ ~store[a.run_id].exists
                /\ ~a.aggregate_only /\ QuestionOf(a) # "") =>
                  /\ o.kind = "call" /\ o.entry = "run_aggregate_qa"
                  /\ o.run_id = a.run_id /\ o.question = QuestionOf(a)
            /\ (a.run_id # "" /\ (store[a.run_id].exists \/ a.aggregate_only)) =>
                  /\ o.kind = "call" /\ o.entry = "run_aggregate_only"
                  /\ o.run_id = a.run_id

(***************************************************************************)
(* Properties of the persisted run state, checked under Spec.              *)
(***************************************************************************)
\* what exists in the run directory before still exists after
NothingRemoved(before, after) ==
    /\ before.exists => after.exists
    /\ before.meta # <<>> => after.meta # <<>>
    /\ DOMAIN before.json \subseteq DOMAIN after.json
    /\ DOMAIN before.txt \subseteq DOMAIN after.txt
    /\ before.aggregate # <<>> => after.aggregate # <<>>
    /\ before.answers # <<>> => after.answers # <<>>

\* C31: no step of run_aggregate_qa or run_aggregate_only, successful or
\* failing, with the store calls they make (create_run, update_metadata,
\* save_single_qa_result, save_aggregate_result), removes persisted run state:
\* a run directory, a metadata file, a per-document result file or an
\* aggregate result that exists continues to exist.
C31_NothingAutoDeleted ==
    [][\A r \in RunIds : NothingRemoved(store[r], store'[r])]_vars

\* a run that failed in its map phase keeps its directory, its metadata and
\* the results persisted before the failure
C31_Witness ==
    /\ call.kind = "qa" /\ pc = "raised"
    /\ store[call.run_id].exists
    /\ Status(call.run_id) = "failed"
    /\ DOMAIN store[call.run_id].json # {}
    /\ store[call.run_id].aggregate = <<>>

(***************************************************************************)
(* Property of read_document, checked under SpecQA.                        *)
(***************************************************************************)
\* C32: document loading resolves the encoding defensively: when no encoding
\* is detected or decoding with the detected encoding fails, read_document
\* tries at least one alternate encoding before it fails.
C32_AlternateEncodingTried ==
    (qaOut # <<>> /\ qaDoc \in {"undetected", "misdetected"}
        /\ read_document(qaDoc).kind = "raise") =>
        Len(read_document(qaDoc).decodes) >= 2

(***************************************************************************)
(* Property of the fingerprint, checked under SpecScan.                    *)
(***************************************************************************)
\* C33: a failure to read a file while its fingerprint is computed does not
\* abort scan_documents: the scan returns one record per file found, the
\* record of an unreadable file carries a fingerprint derived from its path,
\* that of a readable file the fingerprint of its content, and the records
\* are indexed and sorted as ever.
C33_ScanSurvivesUnreadableFile ==
    lastFilter.op = "scan" =>
        /\ Len(scanOut) = Len(rglobOrder)
        /\ {scanOut[i].relative_path : i \in 1..Len(scanOut)} = FilesOf(rglobOrder)
        /\ IndexedAndSorted(scanOut)
        /\ \A i \in 1..Len(scanOut) :
              scanOut[i].hash =
                  IF scanOut[i].relative_path \in lastFilter.unreadable
                  THEN <<"md5 of path", scanOut[i].path>>
                  ELSE <<"md5 of content", scanOut[i].relative_path>>

\* a scan over three files or more, one of them unreadable, has returned
C33_Witness ==
    /\ lastFilter.op = "scan" /\ Len(scanOut) >= 3
    /\ Cardinality(lastFilter.unreadable) = 1
    /\ \E i \in 1..Len(scanOut) : scanOut[i].hash[1] = "md5 of path"
    /\ \E i \in 1..Len(scanOut) : scanOut[i].hash[1] = "md5 of content"

(***************************************************************************)
(* Property of concurrent create_run() calls, checked under SpecRace.      *)
(***************************************************************************)
\* C34: two orchestrations that call create_run() at the same time, on the
\* same date and base directory, never obtain the same run id: whatever the
\* interleaving of their existence checks and directory creations, the two
\* ids returned differ.
C34_ConcurrentIdsDistinct ==
    (\A p \in Racers : racers[p].pc = "done") =>
        \A p, q \in Racers : p # q => racers[p].run_id # racers[q].run_id

(***************************************************************************)
(* Property of create_run on an existing run, checked under SpecStore.     *)
(***************************************************************************)
\* C35: create_run with an explicit id that names an existing run does not
\* alter what that run has persisted: the metadata (status, parameters,
\* created_at, results) is as before, so a completed run is never seen with
\* status created again.
C35_CreateKeepsExistingRun ==
    [][(/\ clock' # clock
        /\ lastOp'.op = "create_run"
        /\ MetadataExists(store, "r1")) =>
            /\ store'["r1"].meta = store["r1"].meta
            /\ (load_metadata(store, "r1").status = "completed" =>
                    load_metadata(store', "r1").status # "created")]_vars

(***************************************************************************)
(* Properties of the run's metadata and status, checked under Spec.        *)
(***************************************************************************)
\* C36: run_aggregate_only never changes the status, the parameters or the
\* documents of the run's metadata: after a successful resume they are what
\* they were (a failed run stays failed although it now has an aggregate
\* result), and a resume that fails leaves the metadata as it was.
C36_ResumeKeepsStatus ==
    [][ResumeStep =>
          /\ MetadataExists(store, call'.run_id) =>
                /\ MetadataExists(store', call'.run_id)
                /\ load_metadata(store', call'.run_id).status
                       = load_metadata(store, call'.run_id).status
                /\ load_metadata(store', call'.run_id).parameters
                       = load_metadata(store, call'.run_id).parameters
                /\ load_metadata(store', call'.run_id).documents
                       = load_metadata(store, call'.run_id).documents
          /\ pc' = "raised" =>
                store'[call'.run_id].meta = store[call'.run_id].meta]_vars

\* a run whose reduce phase failed was resumed with success: every map result
\* is there, the aggregate result and its template are recorded, and the
\* status is still failed
C36_Witness ==
    /\ call.kind = "agg" /\ pc = "returned"
    /\ Status(call.run_id) = "failed"
    /\ "aggregate_template" \in DOMAIN load_metadata(store, call.run_id)
    /\ Len(load_metadata(store, call.run_id).documents) >= 1
    /\ Cardinality(DOMAIN store[call.run_id].json)
           = Len(load_metadata(store, call.run_id).documents)
    /\ store[call.run_id].aggregate # <<>>

\* the run directory holds exactly one map result, in both representations,
\* for the document recorded in the metadata under d
OneResultFor(st, r, d) ==
    /\ Cardinality({n \in DOMAIN st[r].json :
                       st[r].json[n].document_path = BaseDir \o d.path}) = 1
    /\ Cardinality({n \in DOMAIN st[r].txt :
                       st[r].txt[n].document = BaseDir \o d.path}) = 1

\* C37: for a run executed by run_aggregate_qa on a fresh run id, status
\* completed implies that the aggregate result file exists, that exactly one
\* map result per document of the run's document list is persisted, and that
\* results.single_qa_count is the number of documents in the metadata.
C37_CompletedMeansComplete ==
    \A r \in RunIds :
        (MetadataExists(store, r) /\ load_metadata(store, r).status = "completed") =>
            LET m == load_metadata(store, r)
            IN  /\ store[r].aggregate # <<>>
                /\ \A i \in 1..Len(m.documents) : OneResultFor(store, r, m.documents[i])
                /\ Cardinality(DOMAIN store[r].json) = Len(m.documents)
                /\ m.results.single_qa_count = Len(m.documents)

\* run_aggregate_qa has completed a run over two documents or more
C37_Witness ==
    /\ call.kind = "qa" /\ pc = "returned"
    /\ Status(call.run_id) = "completed"
    /\ load_metadata(store, call.run_id).results.single_qa_count >= 2
    /\ Cardinality(DOMAIN store[call.run_id].json) >= 2

FailureStatuses ==
    {"failed", "setup_failed", "single_qa_failed", "finalization_failed"}

C39_RoundTrip ==
    lastOp.op = "run_single_qa_batch" =>
        load_single_qa_results(store, "r1") = lastOp.returned
====
